---- MODULE Spec2Model ----
(***************************************************************************)
(* A model of the agentic-flows tutorial code:                             *)
(*   - AgentStateMachine            (agentic_flows_tutorial/1_state_machines.py)     *)
(*   - ToolUsingAgent.use_tool      (agentic_flows_tutorial/2_tool_usage.py)         *)
(*   - PydanticToolAgent.use_tool   (agentic_flows_tutorial/6_structured_data_pydantic.py) *)
(*   - SimpleOrchestrator           (agentic_flows_tutorial/3_orchestration.py)      *)
(*   - the Testable Item API        (fastapi_advanced_tutorial/4_testing_fastapi.py) *)
(* Each class is an independent program; each gets its own specification   *)
(* over its own variables, the variables of the others staying parked.     *)
(***************************************************************************)
EXTENDS Integers, Sequences, FiniteSets, TLC

VARIABLES
    \* ---- AgentStateMachine ----
    current_state,        \* self.current_state
    _transitions,         \* self._transitions: state -> (event -> state), nested dicts
    _on_enter_actions,    \* keys of self._on_enter_actions
    _on_exit_actions,     \* keys of self._on_exit_actions
    last_call,            \* observation of the most recent handle_event call / registration
    \* ---- ToolUsingAgent / PydanticToolAgent ----
    tool_request,         \* the use_tool call: agent class, tool_name, raw_args, random draws
    tool_outcome,         \* what use_tool returned (or that it raised)
    tool_calls,           \* spy: the invocations of registered tool callables it made
    \* ---- SimpleOrchestrator ----
    tools,                \* keys of self.tools
    max_steps,            \* self.max_steps
    history,              \* self.history
    task,                 \* the locals of the execute_task call in progress
    task_return,          \* the dict execute_task returned
    orch_spy,             \* spy: decisions taken and tool callables invoked by the call
    \* ---- SimpleOrchestrator called several times (list objects by identity) ----
    lists,                \* the list objects created for self.history, by identity
    self_history,         \* self.history: which list object the attribute refers to
    frames,               \* call -> the locals of that execute_task call
    results,              \* call -> the dict it returned; "history" is a reference
    call_spy,             \* spy, per call: entries it logged, callables it invoked
    \* ---- Testable Item API (fastapi_advanced_tutorial/4_testing_fastapi.py) ----
    fake_items_db,        \* the module-level list of Items
    dependency_overrides, \* app.dependency_overrides: what get_api_key is overridden by
    last_request,         \* observation: the most recent request or handler call
    last_response,        \* observation: what it was answered with
    \* ---- the order-processing example of 1_state_machines.py ----
    state_changes,        \* observation: how often current_state has changed
    \* ---- db_pool and the requests using get_db_connection ----
    _active_connections,  \* db_pool._active_connections
    requests,             \* per request: where it is, its db_conn, what was released
    \* ---- LoggingAgent.process_task and the logging module's flow_id ----
    logging_flow_id,      \* the attribute flow_id of the logging module
    agent_calls           \* per caller: position in process_task, locals, records emitted

smVars == <<current_state, _transitions, _on_enter_actions, _on_exit_actions, last_call>>
toolVars == <<tool_request, tool_outcome, tool_calls>>
orchVars == <<tools, max_steps, history, task, task_return, orch_spy>>
callVars == <<lists, self_history, frames, results, call_spy>>
itemVars == <<fake_items_db, dependency_overrides, last_request, last_response>>
orderVars == <<state_changes>>
poolVars == <<_active_connections, requests>>
logVars == <<logging_flow_id, agent_calls>>

vars == <<smVars, toolVars, orchVars, callVars, itemVars, orderVars, poolVars, logVars>>

(***************************************************************************)
(* AgentStateMachine                                                       *)
(***************************************************************************)

\* class OrderState(Enum)
OrderState ==
    {"PENDING_PAYMENT", "AWAITING_SHIPMENT", "SHIPPED", "DELIVERED", "CANCELLED", "FAILED"}

\* class OrderEvent(Enum)
OrderEvent ==
    {"PAYMENT_RECEIVED", "PAYMENT_FAILED", "ITEM_SHIPPED", "DELIVERY_CONFIRMED",
     "CANCEL_ORDER", "ERROR_OCCURRED"}

\* The inputs the registration calls and handle_event are explored with.
\* RaiseChoices: <<exit action raises, entry action raises>>; an action that
\* is not invoked cannot raise, so these three cover every behaviour.
FromStates == {"PENDING_PAYMENT", "AWAITING_SHIPMENT"}
ToStates   == {"AWAITING_SHIPMENT", "FAILED"}
RegEvents  == {"PAYMENT_RECEIVED", "PAYMENT_FAILED"}
EventData  == {"ORD123", "ORD456"}
RaiseChoices == {<<FALSE, FALSE>>, <<TRUE, FALSE>>, <<FALSE, TRUE>>}

\* At most this many (state, event) pairs are registered in the explored tables.
MaxTransitions == 2

NoCall == [called |-> FALSE]

\* What is observed of an add_transition call: its arguments, and the target
\* the pair had before it ("none" if the pair was new).
Registration(from_state, event, to_state, previous) ==
    [called |-> FALSE,
     registered |-> [from_state |-> from_state, event |-> event, to_state |-> to_state,
                     previous |-> previous]]

\* The (state, event) pairs that have an entry in the nested dict tr.
RegisteredPairs(tr) == {p \in OrderState \X OrderEvent : p[1] \in DOMAIN tr /\ p[2] \in DOMAIN tr[p[1]]}

\* An add_transition that keeps the target a pair was first registered with.
add_transition_mutant_keep_first(tr, from_state, event, to_state) ==
    IF from_state \in DOMAIN tr /\ event \in DOMAIN tr[from_state]
    THEN tr
    ELSE LET inner == IF from_state \in DOMAIN tr THEN tr[from_state] ELSE << >>
             inner2 == [e \in (DOMAIN inner) \cup {event} |->
                            IF e = event THEN to_state ELSE inner[e]]
         IN [s \in (DOMAIN tr) \cup {from_state} |->
                IF s = from_state THEN inner2 ELSE tr[s]]

\* AgentStateMachine.add_transition applied to the table tr.
add_transition(tr, from_state, event, to_state) ==
    LET inner == IF from_state \in DOMAIN tr THEN tr[from_state] ELSE << >>
        inner2 == [e \in (DOMAIN inner) \cup {event} |->
                       IF e = event THEN to_state ELSE inner[e]]
    IN [s \in (DOMAIN tr) \cup {from_state} |->
           IF s = from_state THEN inner2 ELSE tr[s]]

\* One invocation of a registered action callback, as the callback sees it.
ActionCall(kind, state, data) == [kind |-> kind, state |-> state, data |-> data]

\* AgentStateMachine.handle_event: the state left behind, what the call
\* returned ("True", "False") or that it raised, and the action callbacks it
\* invoked, in order.  exit_raises / enter_raises say whether the callback,
\* if it is invoked, raises.
handle_event_mutant_enter_first(cs, tr, enter, exit, event, data, exit_raises, enter_raises) ==
    IF cs \in DOMAIN tr /\ event \in DOMAIN tr[cs]
    THEN LET new_state == tr[cs][event]
             enterCalls == IF new_state \in enter
                           THEN <<ActionCall("on_enter", new_state, data)>> ELSE << >>
             exitCalls == IF cs \in exit
                          THEN <<ActionCall("on_exit", cs, data)>> ELSE << >>
         IN [state |-> new_state, ret |-> "True", calls |-> enterCalls \o exitCalls]
    ELSE [state |-> cs, ret |-> "False", calls |-> << >>]

handle_event_mutant_ignore_table(cs, tr, enter, exit, event, data, exit_raises, enter_raises) ==
    LET new_state == IF cs \in DOMAIN tr /\ event \in DOMAIN tr[cs]
                     THEN tr[cs][event] ELSE "FAILED"
        exitCalls == IF cs \in exit
                     THEN <<ActionCall("on_exit", cs, data)>> ELSE << >>
        enterCalls == IF new_state \in enter
                      THEN <<ActionCall("on_enter", new_state, data)>> ELSE << >>
    IN [state |-> new_state, ret |-> "True", calls |-> exitCalls \o enterCalls]

handle_event_mutant_assign_first(cs, tr, enter, exit, event, data, exit_raises, enter_raises) ==
    IF cs \in DOMAIN tr /\ event \in DOMAIN tr[cs]
    THEN LET old_state == cs
             new_state == tr[cs][event]
             exitCalls == IF old_state \in exit
                          THEN <<ActionCall("on_exit", old_state, data)>> ELSE << >>
             enterCalls == IF new_state \in enter
                           THEN <<ActionCall("on_enter", new_state, data)>> ELSE << >>
         IN IF old_state \in exit /\ exit_raises
            THEN [state |-> new_state, ret |-> "raised", calls |-> exitCalls]
            ELSE IF new_state \in enter /\ enter_raises
                 THEN [state |-> new_state, ret |-> "raised",
                       calls |-> exitCalls \o enterCalls]
                 ELSE [state |-> new_state, ret |-> "True",
                       calls |-> exitCalls \o enterCalls]
    ELSE [state |-> cs, ret |-> "False", calls |-> << >>]

handle_event(cs, tr, enter, exit, event, data, exit_raises, enter_raises) ==
    IF cs \in DOMAIN tr /\ event \in DOMAIN tr[cs]
    THEN LET old_state == cs
             new_state == tr[cs][event]
             exitCalls == IF old_state \in exit
                          THEN <<ActionCall("on_exit", old_state, data)>> ELSE << >>
             enterCalls == IF new_state \in enter
                           THEN <<ActionCall("on_enter", new_state, data)>> ELSE << >>
         IN IF old_state \in exit /\ exit_raises
            THEN \* the exit action raises before self.current_state is assigned
                 [state |-> old_state, ret |-> "raised", calls |-> exitCalls]
            ELSE IF new_state \in enter /\ enter_raises
                 THEN \* the entry action raises after self.current_state = new_state
                      [state |-> new_state, ret |-> "raised",
                       calls |-> exitCalls \o enterCalls]
                 ELSE [state |-> new_state, ret |-> "True",
                       calls |-> exitCalls \o enterCalls]
    ELSE [state |-> cs, ret |-> "False", calls |-> << >>]

\* AgentStateMachine.__init__(initial_state)
SMInit ==
    /\ current_state \in FromStates \cup ToStates
    /\ _transitions = << >>
    /\ _on_enter_actions = {}
    /\ _on_exit_actions = {}
    /\ last_call = NoCall

AddTransition ==
    \E from_state \in FromStates, event \in RegEvents, to_state \in ToStates :
        /\ Cardinality(RegisteredPairs(add_transition(_transitions, from_state, event, to_state)))
               <= MaxTransitions
        /\ _transitions' = add_transition(_transitions, from_state, event, to_state)
        /\ last_call' = Registration(from_state, event, to_state,
                                     IF <<from_state, event>> \in RegisteredPairs(_transitions)
                                     THEN _transitions[from_state][event] ELSE "none")
        /\ UNCHANGED <<current_state, _on_enter_actions, _on_exit_actions>>

AddOnEnterAction ==
    \E state \in FromStates \cup ToStates :
        /\ _on_enter_actions' = _on_enter_actions \cup {state}
        /\ last_call' = NoCall
        /\ UNCHANGED <<current_state, _transitions, _on_exit_actions>>

AddOnExitAction ==
    \E state \in FromStates \cup ToStates :
        /\ _on_exit_actions' = _on_exit_actions \cup {state}
        /\ last_call' = NoCall
        /\ UNCHANGED <<current_state, _transitions, _on_enter_actions>>

HandleEvent ==
    \E event \in RegEvents, data \in EventData, raises \in RaiseChoices :
        LET r == handle_event(current_state, _transitions, _on_enter_actions,
                              _on_exit_actions, event, data, raises[1], raises[2])
        IN /\ current_state' = r.state
           /\ last_call' = [called |-> TRUE, old_state |-> current_state, event |-> event,
                            data |-> data, exit_raises |-> raises[1],
                            enter_raises |-> raises[2], ret |-> r.ret, calls |-> r.calls]
           /\ UNCHANGED <<_transitions, _on_enter_actions, _on_exit_actions>>

SMNext == AddTransition \/ AddOnEnterAction \/ AddOnExitAction \/ HandleEvent

\* The state machine has made no call and is not running.
SMParked ==
    /\ current_state = "PENDING_PAYMENT"
    /\ _transitions = << >>
    /\ _on_enter_actions = {}
    /\ _on_exit_actions = {}
    /\ last_call = NoCall

(***************************************************************************)
(* The order-processing example (__main__ of 1_state_machines.py)          *)
(***************************************************************************)

\* A table that also lets a failed order take a payment again.
OrderTable_mutant_reopen ==
    add_transition(
    add_transition(
    add_transition(
    add_transition(
    add_transition(
    add_transition(
    add_transition(
    add_transition(
    add_transition(<< >>,
        "PENDING_PAYMENT", "PAYMENT_RECEIVED", "AWAITING_SHIPMENT"),
        "PENDING_PAYMENT", "PAYMENT_FAILED", "FAILED"),
        "PENDING_PAYMENT", "CANCEL_ORDER", "CANCELLED"),
        "AWAITING_SHIPMENT", "ITEM_SHIPPED", "SHIPPED"),
        "AWAITING_SHIPMENT", "CANCEL_ORDER", "CANCELLED"),
        "AWAITING_SHIPMENT", "ERROR_OCCURRED", "FAILED"),
        "SHIPPED", "DELIVERY_CONFIRMED", "DELIVERED"),
        "SHIPPED", "ERROR_OCCURRED", "FAILED"),
        "FAILED", "PAYMENT_RECEIVED", "PENDING_PAYMENT")

\* The table the eight order_agent.add_transition calls build, in their order.
OrderTable ==
    add_transition(
    add_transition(
    add_transition(
    add_transition(
    add_transition(
    add_transition(
    add_transition(
    add_transition(<< >>,
        "PENDING_PAYMENT", "PAYMENT_RECEIVED", "AWAITING_SHIPMENT"),
        "PENDING_PAYMENT", "PAYMENT_FAILED", "FAILED"),
        "PENDING_PAYMENT", "CANCEL_ORDER", "CANCELLED"),
        "AWAITING_SHIPMENT", "ITEM_SHIPPED", "SHIPPED"),
        "AWAITING_SHIPMENT", "CANCEL_ORDER", "CANCELLED"),
        "AWAITING_SHIPMENT", "ERROR_OCCURRED", "FAILED"),
        "SHIPPED", "DELIVERY_CONFIRMED", "DELIVERED"),
        "SHIPPED", "ERROR_OCCURRED", "FAILED")

\* The six order_agent.add_on_enter_action calls: every state has one.
OrderEnterActions == OrderState

\* handle_event(event) without event_data passes None to the action, and
\* each action of the example starts with data.get(...), which then raises.
NoEventData == "None"

\* The state changes of one order are followed up to this number.
MaxStateChanges == 4

\* order_agent after its setup.
OrderInit ==
    /\ current_state = "PENDING_PAYMENT"
    /\ _transitions = OrderTable
    /\ _on_enter_actions = OrderEnterActions
    /\ _on_exit_actions = {}
    /\ last_call = NoCall
    /\ state_changes = 0

OrderParked == state_changes = 0

\* order_agent.handle_event(event, event_data=...)
OrderHandleEvent ==
    \E event \in OrderEvent, data \in EventData \cup {NoEventData} :
        LET r == handle_event(current_state, _transitions, _on_enter_actions,
                              _on_exit_actions, event, data, FALSE, data = NoEventData)
        IN /\ r.state # current_state => state_changes < MaxStateChanges
           /\ current_state' = r.state
           /\ state_changes' = IF r.state # current_state THEN state_changes + 1
                                ELSE state_changes
           /\ last_call' = [called |-> TRUE, old_state |-> current_state, event |-> event,
                            data |-> data, exit_raises |-> FALSE,
                            enter_raises |-> (data = NoEventData), ret |-> r.ret,
                            calls |-> r.calls]
           /\ UNCHANGED <<_transitions, _on_enter_actions, _on_exit_actions>>

(***************************************************************************)
(* DBPool and the get_db_connection dependency (1_advanced_dependencies.py) *)
(*                                                                         *)
(* get_db_connection and the three path operations that depend on it are   *)
(* coroutines without an await of their own, so each piece of them runs on *)
(* the event loop without interruption: the dependency up to its yield,    *)
(* the path operation, and the dependency after its yield.  Requests       *)
(* interleave between these pieces.                                        *)
(***************************************************************************)

\* db_pool = DBPool(max_connections=2)
db_pool_max_connections == 2

\* The clients whose requests are in flight at the same time.
RequestIds == {"r1", "r2", "r3"}

\* db_conn = None
NoConnection == 0

\* DBPool.get_connection: the blocking sleep lets nothing else run, so the
\* second test sees what the first saw.  The connection record is a
\* non-empty dict; of its id the model keeps the counter part.
get_connection(active) ==
    IF active >= db_pool_max_connections
    THEN [raised |-> TRUE, active |-> active, db_conn |-> NoConnection]
    ELSE [raised |-> FALSE, active |-> active + 1, db_conn |-> active + 1]

\* DBPool.release_connection
release_connection(active, conn_id) == active - 1

\* How a path operation (or a later step of the request) ends.
Outcomes == {"returns", "raises_HTTPException", "raises_Exception"}

\* Teardown that releases after a normal return only.
get_db_connection_exit_mutant_no_finally(active, db_conn, outcome) ==
    IF outcome = "returns" /\ db_conn # NoConnection
    THEN [active |-> release_connection(active, db_conn), released |-> 1, status |-> 200]
    ELSE [active |-> active, released |-> 0,
          status |-> IF outcome = "returns" THEN 200
                     ELSE IF outcome = "raises_HTTPException" THEN 400 ELSE 500]

\* get_db_connection from its yield on: the outcome of the request is sent
\* in at the yield; an HTTPException passes, any other Exception becomes a
\* 500, and the finally block releases a connection that was acquired.
get_db_connection_exit(active, db_conn, outcome) ==
    LET status == IF outcome = "returns" THEN 200
                  ELSE IF outcome = "raises_HTTPException" THEN 400
                  ELSE 500
    IN IF db_conn # NoConnection
       THEN [active |-> release_connection(active, db_conn), released |-> 1, status |-> status]
       ELSE [active |-> active, released |-> 0, status |-> status]

NoRequestYet == [pc |-> "idle", db_conn |-> NoConnection, acquired |-> 0, released |-> 0,
                 outcome |-> "none", status |-> 0]

PoolInit ==
    /\ _active_connections = 0
    /\ requests = [r \in RequestIds |-> NoRequestYet]

PoolParked ==
    /\ _active_connections = 0
    /\ requests = << >>

\* A request arrives and FastAPI enters get_db_connection up to its yield.
\* With the pool exhausted get_connection raises 503, which the dependency
\* re-raises, and its finally block finds db_conn still None.
EnterDependency(r) ==
    /\ requests[r].pc \in {"idle", "done"}
    /\ LET g == get_connection(_active_connections)
       IN /\ _active_connections' = g.active
          /\ requests' = [requests EXCEPT ![r] =
                 IF g.raised
                 THEN LET x == get_db_connection_exit(g.active, NoConnection,
                                                      "raises_HTTPException")
                      IN [pc |-> "done", db_conn |-> NoConnection, acquired |-> 0,
                          released |-> x.released, outcome |-> "none", status |-> 503]
                 ELSE [pc |-> "yielded", db_conn |-> g.db_conn, acquired |-> 1,
                       released |-> 0, outcome |-> "none", status |-> 0]]

\* read_item / read_user / process_data run with the injected connection.
PathOperation(r) ==
    /\ requests[r].pc = "yielded"
    /\ \E outcome \in Outcomes :
           requests' = [requests EXCEPT ![r].pc = "unwinding", ![r].outcome = outcome]
    /\ UNCHANGED _active_connections

\* FastAPI leaves the dependency: the code after the yield runs.
ExitDependency(r) ==
    /\ requests[r].pc = "unwinding"
    /\ LET x == get_db_connection_exit(_active_connections, requests[r].db_conn,
                                       requests[r].outcome)
       IN /\ _active_connections' = x.active
          /\ requests' = [requests EXCEPT ![r].pc = "done",
                                          ![r].released = @ + x.released,
                                          ![r].status = x.status]

PoolNext ==
    \E r \in RequestIds : EnterDependency(r) \/ PathOperation(r) \/ ExitDependency(r)

(***************************************************************************)
(* LoggingAgent (7_logging_monitoring.py)                                  *)
(*                                                                         *)
(* The flow id is an attribute set on the logging module, one per process. *)
(* process_task writes it at its start and before each return, and the     *)
(* record factory reads it whenever a record is made.  Callers on          *)
(* different threads interleave between these accesses.                    *)
(***************************************************************************)

AgentCallers == {"t1", "t2"}

\* str(uuid.uuid4())[:8]: an id of its own for each call in progress.
NewFlowId(c) == IF c = "t1" THEN "flow-t1" ELSE "flow-t2"

\* The logging module has no attribute flow_id until the first setattr.
NoAttribute == "no attribute"

\* getattr(logging, 'flow_id', 'GLOBAL')
getattr_flow_id(attr) == IF attr = NoAttribute THEN "GLOBAL" ELSE attr

NoToolName == "None"
NoParameters == [given |-> FALSE, has_param |-> FALSE, param |-> ""]
Parameters(value) == [given |-> TRUE, has_param |-> TRUE, param |-> value]
\* {"wrong_param_name": "test"}
WrongParameters == [given |-> TRUE, has_param |-> FALSE, param |-> ""]

\* task1_data .. task4_data of __main__, and the two incomplete shapes.
TaskData ==
    { [tool_name |-> "example_tool_1", parameters |-> Parameters("hello world")],
      [tool_name |-> "example_tool_1", parameters |-> Parameters("fail")],
      [tool_name |-> "example_tool_1", parameters |-> WrongParameters],
      [tool_name |-> "non_existent_tool", parameters |-> Parameters("test")],
      [tool_name |-> NoToolName, parameters |-> Parameters("test")],
      [tool_name |-> "example_tool_1", parameters |-> NoParameters] }

\* agent_log_record_factory puts flow_id on every record it makes, and
\* Logger.makeRecord raises KeyError for a key of extra that the record
\* already has.
makeRecord(attr, extra) ==
    IF "flow_id" \in extra
    THEN [raised |-> TRUE, flow_id |-> "none"]
    ELSE [raised |-> FALSE, flow_id |-> getattr_flow_id(attr)]

\* example_tool_1: its first statement logs with extra={"flow_id": ...}.
example_tool_1(param, attr) ==
    LET first == makeRecord(attr, {"flow_id"})
    IN IF first.raised
       THEN [raised |-> TRUE, type |-> "KeyError", flow_ids |-> {}]
       ELSE IF param = "fail"
            THEN [raised |-> FALSE, type |-> "ErrorOutput",
                  flow_ids |-> {first.flow_id, makeRecord(attr, {}).flow_id}]
            ELSE [raised |-> FALSE, type |-> "BasicToolOutput", flow_ids |-> {first.flow_id}]

\* LoggingAgent._execute_tool after the tool ran: what it returns.
execute_tool_result(tool) == IF tool.raised THEN "ErrorOutput" ELSE tool.type

\* process_task lines 150-166: the status for the type of the tool result.
final_status(tool_result) ==
    IF tool_result = "ErrorOutput" THEN "Failed"
    ELSE IF tool_result = "BasicToolOutput" THEN "Completed"
    ELSE "Error"

\* What process_task does after its first log line: the three early
\* returns with status Error, or going on to the tool.
\* BasicToolInput(**raw_tool_params) validates when the required param is there.
task_check(task_data) ==
    IF task_data.tool_name = NoToolName \/ ~task_data.parameters.given
    THEN "Invalid task structure."
    ELSE IF task_data.tool_name = "example_tool_1"
         THEN IF task_data.parameters.has_param
              THEN "ok"
              ELSE "Tool input validation failed."
         ELSE "Schema missing"

NoAgentCall == [pc |-> "idle", task_data |-> [tool_name |-> NoToolName,
                                              parameters |-> NoParameters],
                flow_id |-> "none", records |-> {}, tool_executed |-> FALSE,
                tool_result |-> "none", status |-> "none", message |-> "none"]

AgentInit ==
    /\ logging_flow_id = NoAttribute
    /\ agent_calls = [c \in AgentCallers |-> NoAgentCall]

AgentParked ==
    /\ logging_flow_id = NoAttribute
    /\ agent_calls = << >>

\* self.logger.<level>(...): the record gets the flow id found at this moment.
Emitted(c) == agent_calls[c].records \cup {makeRecord(logging_flow_id, {}).flow_id}

\* process_task lines 118-119
ProcessTaskBegin(c) ==
    /\ agent_calls[c].pc \in {"idle", "returned"}
    /\ \E task_data \in TaskData :
           agent_calls' = [agent_calls EXCEPT ![c] =
               [NoAgentCall EXCEPT !.pc = "log_start", !.task_data = task_data,
                                   !.flow_id = NewFlowId(c)]]
    /\ logging_flow_id' = NewFlowId(c)

\* process_task lines 121-144, up to the error line of an early return
LogStart(c) ==
    /\ agent_calls[c].pc = "log_start"
    /\ LET check == task_check(agent_calls[c].task_data)
       IN agent_calls' = [agent_calls EXCEPT
              ![c].records = Emitted(c),
              ![c].pc = IF check = "ok" THEN "log_decision" ELSE "log_error",
              ![c].message = check]
    /\ UNCHANGED logging_flow_id

\* the self.logger.error of lines 128, 138, 142
LogError(c) ==
    /\ agent_calls[c].pc = "log_error"
    /\ agent_calls' = [agent_calls EXCEPT ![c].records = Emitted(c), ![c].pc = "reset",
                                          ![c].status = "Error"]
    /\ UNCHANGED logging_flow_id

\* The lines that only log: process_task 146, _execute_tool 104 and
\* 108-114, process_task 168.
AfterLogLine(pc) ==
    IF pc = "log_decision" THEN "log_attempt"
    ELSE IF pc = "log_attempt" THEN "tool"
    ELSE IF pc = "log_outcome" THEN "log_final"
    ELSE "reset"

LogLine(c) ==
    /\ agent_calls[c].pc \in {"log_decision", "log_attempt", "log_outcome", "log_finished"}
    /\ agent_calls' = [agent_calls EXCEPT ![c].records = Emitted(c),
                                          ![c].pc = AfterLogLine(agent_calls[c].pc)]
    /\ UNCHANGED logging_flow_id

\* _execute_tool line 107: tool_function(tool_input_model)
RunTool(c) ==
    /\ agent_calls[c].pc = "tool"
    /\ LET tool == example_tool_1(agent_calls[c].task_data.parameters.param, logging_flow_id)
       IN agent_calls' = [agent_calls EXCEPT
              ![c].records = @ \cup tool.flow_ids,
              ![c].tool_executed = TRUE,
              ![c].tool_result = execute_tool_result(tool),
              ![c].pc = "log_outcome"]
    /\ UNCHANGED logging_flow_id

\* process_task lines 150-166
LogFinal(c) ==
    /\ agent_calls[c].pc = "log_final"
    /\ agent_calls' = [agent_calls EXCEPT
           ![c].records = Emitted(c),
           ![c].status = final_status(agent_calls[c].tool_result),
           ![c].pc = "log_finished"]
    /\ UNCHANGED logging_flow_id

\* setattr(logging, 'flow_id', 'GLOBAL') and the return (129-130, 139-140,
\* 143-144, 169-170)
ResetAndReturn(c) ==
    /\ agent_calls[c].pc = "reset"
    /\ logging_flow_id' = "GLOBAL"
    /\ agent_calls' = [agent_calls EXCEPT ![c].pc = "returned"]

AgentNext ==
    \E c \in AgentCallers :
        \/ ProcessTaskBegin(c)
        \/ LogStart(c)
        \/ LogError(c)
        \/ LogLine(c)
        \/ RunTool(c)
        \/ LogFinal(c)
        \/ ResetAndReturn(c)

(***************************************************************************)
(* Tool agents: PydanticToolAgent.use_tool and ToolUsingAgent.use_tool     *)
(***************************************************************************)

\* Python values that occur as tool arguments.
Str(s) == [type |-> "str", val |-> s]
NoneValue == [type |-> "NoneType", val |-> "None"]
IntValue == [type |-> "int", val |-> "42"]

ArgNames == {"location", "city", "query", "search_engine", "expression"}
ArgValues ==
    {Str("London, UK"), Str(""), Str("UNKNOWN_CITY"), Str("Unknown"), Str("AI"),
     Str("100 / 0"), Str("(100 / 5) + 22"), IntValue, NoneValue}

\* raw_args / kwargs dicts carry at most this many keys.
MaxArgs == 2

RawArgs ==
    UNION {[names -> ArgValues] : names \in {n \in SUBSET ArgNames : Cardinality(n) <= MaxArgs}}

ToolNames == {"get_weather", "search_information", "perform_calculation", "non_existent_tool"}

\* The draws of random.choice(conditions) and random.random() < 0.1.
RandomDraws ==
    {[condition |-> "Sunny", no_results |-> FALSE], [condition |-> "Rainy", no_results |-> TRUE]}

\* str.lower() on the strings above.
Lower(s) ==
    CASE s = "London, UK" -> "london, uk"
      [] s = "UNKNOWN_CITY" -> "unknown_city"
      [] s = "Unknown" -> "unknown"
      [] s = "AI" -> "ai"
      [] OTHER -> s

\* str.strip() on the strings above (none has surrounding white space).
Strip(s) == s

\* all(char in allowed_chars for char in expression), allowed_chars = "0123456789.+-*/() "
OnlyAllowedChars(s) == s \in {"", "100 / 0", "(100 / 5) + 22"}

\* eval(expression) for the expressions that pass the character check.
Eval(s) ==
    CASE s = "(100 / 5) + 22" -> [ok |-> TRUE, value |-> "42.0", exc |-> ""]
      [] s = "100 / 0" -> [ok |-> FALSE, value |-> "", exc |-> "division by zero"]
      [] OTHER -> [ok |-> FALSE, value |-> "", exc |-> "invalid syntax"]

\* ---- Pydantic input models (Field declarations) ----
FieldInfo(name, required, nullable, min_length, default) ==
    [name |-> name, required |-> required, nullable |-> nullable,
     min_length |-> min_length, default |-> default]

GetWeatherInput == {FieldInfo("location", TRUE, FALSE, 0, NoneValue)}
SearchInformationInput ==
    {FieldInfo("query", TRUE, FALSE, 3, NoneValue),
     FieldInfo("search_engine", FALSE, TRUE, 0, Str("Google"))}
PerformCalculationInput == {FieldInfo("expression", TRUE, FALSE, 0, NoneValue)}

\* PydanticToolAgent.__init__: self.tools[name]["input_model"]
PydanticTools == {"get_weather", "search_information", "perform_calculation"}
input_model(tool_name) ==
    CASE tool_name = "get_weather" -> GetWeatherInput
      [] tool_name = "search_information" -> SearchInformationInput
      [] tool_name = "perform_calculation" -> PerformCalculationInput

\* The validation errors pydantic reports for one field of a model.
FieldErrors(f, raw_args) ==
    IF f.name \notin DOMAIN raw_args
    THEN IF f.required THEN {"missing"} ELSE {}
    ELSE LET v == raw_args[f.name]
         IN IF v.type = "NoneType" THEN (IF f.nullable THEN {} ELSE {"string_type"})
            ELSE IF v.type # "str" THEN {"string_type"}
            ELSE IF Len(v.val) < f.min_length THEN {"string_too_short"}
            ELSE {}

\* BaseModel.__init__(**raw_args): the validated instance, or ValidationError.
\* Keys that are not fields of the model are ignored; absent optional
\* fields take their default.
model_validate(model, raw_args) ==
    LET errors == UNION {{<<f.name, e>> : e \in FieldErrors(f, raw_args)} : f \in model}
        names == {f.name : f \in model}
        default(n) == (CHOOSE f \in model : f.name = n).default
    IN IF errors = {}
       THEN [ok |-> TRUE,
             inputs |-> [n \in names |-> IF n \in DOMAIN raw_args THEN raw_args[n] ELSE default(n)]]
       ELSE [ok |-> FALSE, errors |-> errors]

\* PydanticToolAgent._parse_and_validate_inputs: the instance, or None.
_parse_and_validate_inputs_mutant_no_validation(tool_name, raw_args) ==
    IF tool_name \notin PydanticTools
    THEN [none |-> TRUE]
    ELSE [none |-> FALSE,
          inputs |-> [n \in {f.name : f \in input_model(tool_name)} |->
                          IF n \in DOMAIN raw_args THEN raw_args[n] ELSE NoneValue]]

_parse_and_validate_inputs(tool_name, raw_args) ==
    IF tool_name \notin PydanticTools
    THEN [none |-> TRUE]
    ELSE LET v == model_validate(input_model(tool_name), raw_args)
         IN IF v.ok THEN [none |-> FALSE, inputs |-> v.inputs] ELSE [none |-> TRUE]

\* Results.  error is the message as the sequence of its f-string parts.
ToolErrorOutput(error, details) ==
    [model |-> "ToolErrorOutput", error |-> error, details |-> details]
Returned(value) == [outcome |-> "return", value |-> value]
Raised(type, text) == [outcome |-> "raise", type |-> type, text |-> text]

get_weather_pydantic(inputs, rnd) ==
    IF Lower(inputs.location.val) = "unknown_city"
    THEN Returned(ToolErrorOutput(
             <<"Could not find weather for an unknown city: ", inputs.location.val>>, NoneValue))
    ELSE Returned([model |-> "WeatherOutput", location |-> inputs.location.val,
                   condition |-> rnd.condition])

\* SearchInformationOutput declares search_engine: str, so building it from
\* an input whose Optional search_engine is None raises ValidationError.
search_information_pydantic(inputs, rnd) ==
    IF inputs.search_engine.type # "str"
    THEN Raised("ValidationError", "search_engine: Input should be a valid string")
    ELSE Returned([model |-> "SearchInformationOutput", query |-> inputs.query.val,
                   search_engine |-> inputs.search_engine.val,
                   results_count |-> IF rnd.no_results THEN 0 ELSE 2])

perform_calculation_pydantic(inputs, rnd) ==
    LET expression == inputs.expression.val
        exc == IF ~OnlyAllowedChars(expression) THEN "Expression contains invalid characters."
               ELSE IF Strip(expression) = "" THEN "Expression cannot be empty."
               ELSE Eval(expression).exc
    IN IF exc = ""
       THEN Returned([model |-> "PerformCalculationOutput", expression |-> expression,
                      result |-> Eval(expression).value])
       ELSE Returned(ToolErrorOutput(<<"Calculation error: ", exc>>,
                                     [expression |-> expression]))

\* self.tools[tool_name]["function"](validated_inputs)
pydantic_tool_function(tool_name, inputs, rnd) ==
    CASE tool_name = "get_weather" -> get_weather_pydantic(inputs, rnd)
      [] tool_name = "search_information" -> search_information_pydantic(inputs, rnd)
      [] tool_name = "perform_calculation" -> perform_calculation_pydantic(inputs, rnd)

\* One entry of the spy on the registered callables.
SpyCall(tool_name, args, r) ==
    [tool |-> tool_name, args |-> args, raised |-> r.outcome = "raise",
     text |-> IF r.outcome = "raise" THEN r.text ELSE ""]

\* What use_tool did: ret is its return value, propagated says that an
\* exception left use_tool instead, calls are the callables it invoked.
UseToolResult(ret, propagated, calls) ==
    [ret |-> ret, propagated |-> propagated, calls |-> calls]

\* PydanticToolAgent.use_tool
pydantic_use_tool_mutant_no_except(tool_name, raw_args, rnd) ==
    IF tool_name \notin PydanticTools
    THEN UseToolResult(ToolErrorOutput(<<"Tool '", tool_name, "' not found.">>, NoneValue),
                       FALSE, << >>)
    ELSE LET validated_inputs == _parse_and_validate_inputs(tool_name, raw_args)
         IN IF validated_inputs.none
            THEN UseToolResult(
                     ToolErrorOutput(<<"Invalid inputs for tool '", tool_name, "'.">>, raw_args),
                     FALSE, << >>)
            ELSE LET r == pydantic_tool_function(tool_name, validated_inputs.inputs, rnd)
                     calls == <<SpyCall(tool_name, validated_inputs.inputs, r)>>
                 IN IF r.outcome = "return"
                    THEN UseToolResult(r.value, FALSE, calls)
                    ELSE UseToolResult(NoneValue, TRUE, calls)

pydantic_use_tool(tool_name, raw_args, rnd) ==
    IF tool_name \notin PydanticTools
    THEN UseToolResult(ToolErrorOutput(<<"Tool '", tool_name, "' not found.">>, NoneValue),
                       FALSE, << >>)
    ELSE LET validated_inputs == _parse_and_validate_inputs(tool_name, raw_args)
         IN IF validated_inputs.none
            THEN UseToolResult(
                     ToolErrorOutput(<<"Invalid inputs for tool '", tool_name, "'.">>, raw_args),
                     FALSE, << >>)
            ELSE LET r == pydantic_tool_function(tool_name, validated_inputs.inputs, rnd)
                     calls == <<SpyCall(tool_name, validated_inputs.inputs, r)>>
                 IN IF r.outcome = "return"
                    THEN UseToolResult(r.value, FALSE, calls)
                    ELSE \* except Exception as e
                         UseToolResult(
                             ToolErrorOutput(<<"Unexpected error executing tool '", tool_name,
                                               "': ", r.text>>, NoneValue),
                             FALSE, calls)

\* ---- ToolUsingAgent (2_tool_usage.py) ----
\* A dict result: its keys and, under "error", the message parts.
Dict(keys, error) == [model |-> "dict", keys |-> keys, error |-> error]

\* ToolUsingAgent.__init__: self.tools, with each function's parameters.
PlainTools == {"get_weather", "search_information", "perform_calculation"}
required_params(tool_name) ==
    CASE tool_name = "get_weather" -> {"location"}
      [] tool_name = "search_information" -> {"query"}
      [] tool_name = "perform_calculation" -> {"expression"}
optional_params(tool_name) ==
    IF tool_name = "search_information" THEN {"search_engine"} ELSE {}

get_weather(kwargs, rnd) ==
    LET location == kwargs["location"]
    IN IF location.type # "str" \/ Strip(location.val) = ""
       THEN Returned(Dict({"error"},
                <<"Invalid location provided. Location must be a non-empty string.">>))
       ELSE IF Lower(location.val) = "unknown"
            THEN Returned(Dict({"error"}, <<"Could not find weather for an unknown location.">>))
            ELSE Returned(Dict({"location", "temperature_celsius", "condition",
                                "humidity_percent", "forecast"}, << >>))

search_information(kwargs, rnd) ==
    LET query == kwargs["query"]
    IN IF query.type # "str" \/ Strip(query.val) = ""
       THEN Returned(Dict({"error"},
                <<"Invalid query provided. Query must be a non-empty string.">>))
       ELSE IF rnd.no_results
            THEN Returned(Dict({"query", "results_count", "summary"}, << >>))
            ELSE Returned(Dict({"query", "search_engine", "results_count", "summary"}, << >>))

perform_calculation(kwargs, rnd) ==
    LET expression == kwargs["expression"]
        exc == IF expression.type # "str" THEN "object is not iterable"
               ELSE IF ~OnlyAllowedChars(expression.val)
                    THEN "Expression contains invalid characters."
               ELSE IF Strip(expression.val) = "" THEN "Expression cannot be empty."
               ELSE Eval(expression.val).exc
    IN IF exc = ""
       THEN Returned(Dict({"expression", "result"}, << >>))
       ELSE Returned(Dict({"expression", "error"}, <<"Calculation error: ", exc>>))

\* tool_function(**kwargs): binding the keyword arguments to the function's
\* parameters raises TypeError before the body runs.
plain_tool_function(tool_name, kwargs, rnd) ==
    IF ~(DOMAIN kwargs \subseteq required_params(tool_name) \cup optional_params(tool_name))
    THEN Raised("TypeError", "got an unexpected keyword argument")
    ELSE IF ~(required_params(tool_name) \subseteq DOMAIN kwargs)
    THEN Raised("TypeError", "missing 1 required positional argument")
    ELSE CASE tool_name = "get_weather" -> get_weather(kwargs, rnd)
           [] tool_name = "search_information" -> search_information(kwargs, rnd)
           [] tool_name = "perform_calculation" -> perform_calculation(kwargs, rnd)

\* ToolUsingAgent.use_tool
plain_use_tool_mutant_reraise(tool_name, kwargs, rnd) ==
    IF tool_name \notin PlainTools
    THEN UseToolResult(Dict({"error"}, <<"Tool '", tool_name, "' not found.">>), FALSE, << >>)
    ELSE LET r == plain_tool_function(tool_name, kwargs, rnd)
             calls == <<SpyCall(tool_name, kwargs, r)>>
         IN IF r.outcome = "return"
            THEN UseToolResult(r.value, FALSE, calls)
            ELSE UseToolResult(NoneValue, TRUE, calls)

plain_use_tool(tool_name, kwargs, rnd) ==
    IF tool_name \notin PlainTools
    THEN UseToolResult(Dict({"error"}, <<"Tool '", tool_name, "' not found.">>), FALSE, << >>)
    ELSE LET r == plain_tool_function(tool_name, kwargs, rnd)
             calls == <<SpyCall(tool_name, kwargs, r)>>
         IN IF r.outcome = "return"
            THEN UseToolResult(r.value, FALSE, calls)
            ELSE IF r.type = "TypeError"
            THEN UseToolResult(
                     Dict({"error"}, <<"Argument mismatch for tool '", tool_name,
                                       "'. Expected: ", "co_varnames", ". Error: ", r.text>>),
                     FALSE, calls)
            ELSE UseToolResult(
                     Dict({"error"}, <<"Unexpected error while executing tool '", tool_name,
                                       "': ", r.text>>),
                     FALSE, calls)

\* ---- the use_tool calls explored ----
Agents == {"PydanticToolAgent", "ToolUsingAgent"}
NotCalled == [called |-> FALSE]

ToolsInit ==
    /\ tool_request \in [agent : Agents, tool_name : ToolNames, raw_args : RawArgs,
                         rnd : RandomDraws]
    /\ tool_outcome = NotCalled
    /\ tool_calls = << >>

ToolsParked ==
    /\ tool_request = [agent |-> "PydanticToolAgent", tool_name |-> "get_weather",
                       raw_args |-> << >>, rnd |-> CHOOSE r \in RandomDraws : TRUE]
    /\ tool_outcome = NotCalled
    /\ tool_calls = << >>

PydanticUseTool ==
    /\ tool_request.agent = "PydanticToolAgent"
    /\ ~tool_outcome.called
    /\ LET r == pydantic_use_tool(tool_request.tool_name, tool_request.raw_args,
                                  tool_request.rnd)
       IN /\ tool_outcome' = [called |-> TRUE, ret |-> r.ret, propagated |-> r.propagated]
          /\ tool_calls' = r.calls
    /\ UNCHANGED tool_request

PlainUseTool ==
    /\ tool_request.agent = "ToolUsingAgent"
    /\ ~tool_outcome.called
    /\ LET r == plain_use_tool(tool_request.tool_name, tool_request.raw_args,
                               tool_request.rnd)
       IN /\ tool_outcome' = [called |-> TRUE, ret |-> r.ret, propagated |-> r.propagated]
          /\ tool_calls' = r.calls
    /\ UNCHANGED tool_request

ToolsNext == PydanticUseTool \/ PlainUseTool

(***************************************************************************)
(* SimpleOrchestrator (3_orchestration.py)                                 *)
(***************************************************************************)

\* The goals execute_task is explored with (those of __main__ and two that
\* reach the other branches of _decide_next_action).
Goals ==
    {"What is the time?",
     "Tell me about the capital of France and then what is the time.",
     "Define python for me.",
     "search for LLM agents",
     "python definition",
     "What is the capital of France?"}

\* Which of the substrings _decide_next_action looks for occur in goal.lower().
GoalSubstrings(goal) ==
    CASE goal = "What is the time?" -> {"time"}
      [] goal = "Tell me about the capital of France and then what is the time." ->
             {"capital of france", "time"}
      [] goal = "Define python for me." -> {}
      [] goal = "search for LLM agents" -> {"search"}
      [] goal = "python definition" -> {"python definition"}
      [] goal = "What is the capital of France?" -> {"capital of france"}

\* current_goal.lower()
GoalLower(goal) ==
    CASE goal = "What is the time?" -> "what is the time?"
      [] goal = "Tell me about the capital of France and then what is the time." ->
             "tell me about the capital of france and then what is the time."
      [] goal = "Define python for me." -> "define python for me."
      [] goal = "What is the capital of France?" -> "what is the capital of france?"
      [] OTHER -> goal

\* current_goal.replace("search for ", "")
WithoutSearchFor(goal) == IF goal = "search for LLM agents" THEN "LLM agents" ELSE goal

\* A tool result dict: its keys, the value under "answer" and the message
\* parts under "error".  NoResult is None.
NoResult == [none |-> TRUE]
OrchResult(keys, answer, error) ==
    [none |-> FALSE, keys |-> keys, answer |-> answer, error |-> error]

\* bool(last_tool_result) is False for None and for an empty dict.
Falsy(r) == r.none \/ r.keys = {}

\* word in str(last_tool_result.get("answer"))
AnswerContains(r, word) ==
    /\ "answer" \in r.keys
    /\ \/ word = "Paris" /\ r.answer = "The capital of France is Paris."
       \/ word = "programming language"
              /\ r.answer = "Python is a high-level, interpreted programming language."

\* def get_current_time()
get_current_time == OrchResult({"current_time"}, "", << >>)

\* def query_knowledge_base(question): kb.get(question.lower().strip(), default)
query_knowledge_base(question) ==
    OrchResult({"question", "answer"},
               CASE question = "What is the capital of France?" ->
                        "The capital of France is Paris."
                 [] question = "What is Python?" ->
                        "Python is a high-level, interpreted programming language."
                 [] OTHER -> "I don't have information on that specific question.",
               << >>)

\* SimpleOrchestrator.__init__: self.tools
DefaultTools == {"get_current_time", "query_knowledge_base"}

\* What a tool callable does when invoked: it returns its result, returns an
\* error output, or raises.  The two registered functions only ever return
\* their result; the other two behaviours are those of a failing tool put in
\* self.tools, which the failure branches of execute_task are written for.
ToolBehaviours == {"returns", "error_output", "raises"}

\* An error output: what perform_calculation("100 / 0") of 2_tool_usage.py returns.
ErrorOutput ==
    LET d == perform_calculation([expression |-> Str("100 / 0")],
                                 CHOOSE r \in RandomDraws : TRUE).value
    IN OrchResult(d.keys, "", d.error)

\* tool_function(**tool_args)
orch_tool_function(tool_name, tool_args, behaviour) ==
    CASE behaviour = "raises" -> Raised("RuntimeError", "tool crashed")
      [] behaviour = "error_output" -> Returned(ErrorOutput)
      [] OTHER -> IF tool_name = "get_current_time"
                  THEN Returned(get_current_time)
                  ELSE Returned(query_knowledge_base(tool_args))

\* SimpleOrchestrator._decide_next_action: None, or the tool and its argument.
NoAction == [none |-> TRUE]
Action(tool_name, args) == [none |-> FALSE, tool_name |-> tool_name, args |-> args]

\* A decision function that selects the time tool for a goal about time
\* without looking at what the last tool returned.
_decide_next_action_mutant_ignore_last_result(current_goal, last_tool_result) ==
    IF "time" \in GoalSubstrings(current_goal)
    THEN Action("get_current_time", "")
    ELSE NoAction

_decide_next_action(current_goal, last_tool_result) ==
    LET in_goal(sub) == sub \in GoalSubstrings(current_goal)
        r == last_tool_result
    IN IF in_goal("time") /\ (Falsy(r) \/ "current_time" \notin r.keys)
       THEN Action("get_current_time", "")
       ELSE IF in_goal("capital of france") /\ (Falsy(r) \/ ~AnswerContains(r, "Paris"))
       THEN Action("query_knowledge_base", "What is the capital of France?")
       ELSE IF in_goal("python definition")
                   /\ (Falsy(r) \/ ~AnswerContains(r, "programming language"))
       THEN Action("query_knowledge_base", "What is Python?")
       ELSE IF /\ ~r.none
               /\ "error" \notin r.keys
               /\ \/ GoalLower(current_goal) = "what is the time?" /\ "current_time" \in r.keys
                  \/ in_goal("capital of france") /\ AnswerContains(r, "Paris")
                  \/ in_goal("python definition") /\ AnswerContains(r, "programming language")
       THEN NoAction
       ELSE IF Falsy(r) /\ in_goal("search")
       THEN Action("query_knowledge_base", WithoutSearchFor(current_goal))
       ELSE NoAction

\* A _log_step that files a tool's exception under the action type "error".
StepLog_mutant_error_type(action_type, details, result) ==
    [action_type |-> IF action_type = "tool_execution_error" THEN "error" ELSE action_type,
     details |-> details, result |-> result]

\* SimpleOrchestrator._log_step: the entry appended to self.history.
StepLog(action_type, details, result) ==
    [action_type |-> action_type, details |-> details, result |-> result]

\* final_answer: which f-string built it, the tool it names and the error
\* message parts it embeds.
Answer(kind, tool_name, error) == [kind |-> kind, tool |-> tool_name, error |-> error]

\* The dict execute_task returns.
TaskResult(goal, status, answer, hist) ==
    [returned |-> TRUE, goal |-> goal, status |-> status, answer |-> answer, history |-> hist]
NotReturned == [returned |-> FALSE]

Idle == [pc |-> "idle"]

\* execute_task, lines 91-99: reset the history, log task_start, set the
\* locals; range_stop is the range(self.max_steps) the for loop iterates over.
OrchStart(goal, steps) ==
    [task |-> [pc |-> "loop", initial_goal |-> goal, last_tool_result |-> NoResult,
               final_answer |-> Answer("could_not_complete", "", << >>), step_count |-> 0,
               range_stop |-> steps],
     history |-> <<StepLog("task_start", goal, NoResult)>>]

\* execute_task, lines 99-131: one iteration of the for loop, for the given
\* behaviour of the tool callable.  Gives the locals, self.history, the
\* return value (on the return inside the loop) and the callables invoked.
OrchIterate_mutant_ignore_error_output(t, h, registered, behaviour) ==
    LET next_action == _decide_next_action(t.initial_goal, t.last_tool_result)
    IN IF next_action.none
       THEN [task |-> [t EXCEPT !.pc = "end",
                         !.final_answer =
                             IF ~t.last_tool_result.none /\ "error" \notin t.last_tool_result.keys
                             THEN Answer("based_on", "", << >>) ELSE @],
             history |-> Append(h, StepLog("decision", "no further action", NoResult)),
             ret |-> NotReturned, calls |-> << >>]
       ELSE IF next_action.tool_name \in registered
       THEN LET tool_name == next_action.tool_name
                h1 == Append(h, StepLog("tool_selection", tool_name, NoResult))
                r == orch_tool_function(tool_name, next_action.args, behaviour)
                calls == <<[tool |-> tool_name, behaviour |-> behaviour]>>
            IN IF r.outcome = "return"
               THEN LET h2 == Append(h1, StepLog("tool_execution", tool_name, r.value))
                    IN IF FALSE
                       THEN LET final_answer == Answer("tool_error", tool_name, r.value.error)
                                h3 == Append(h2, StepLog("task_end", "failed", NoResult))
                            IN [task |-> [t EXCEPT !.pc = "returned",
                                            !.last_tool_result = r.value,
                                            !.final_answer = final_answer],
                                history |-> h3,
                                ret |-> TaskResult(t.initial_goal, "failed", final_answer, h3),
                                calls |-> calls]
                       ELSE [task |-> [t EXCEPT !.last_tool_result = r.value,
                                         !.step_count = @ + 1],
                             history |-> h2, ret |-> NotReturned, calls |-> calls]
               ELSE LET last == OrchResult({"error"}, "",
                                    <<"Orchestrator failed to execute tool ", tool_name,
                                      ": ", r.text>>)
                    IN [task |-> [t EXCEPT !.pc = "end", !.last_tool_result = last,
                                    !.final_answer = Answer("execution_error", tool_name,
                                                            last.error)],
                        history |-> Append(h1, StepLog("tool_execution_error", tool_name, last)),
                        ret |-> NotReturned, calls |-> calls]
       ELSE [task |-> [t EXCEPT !.pc = "end",
                         !.final_answer = Answer("tool_not_recognized", next_action.tool_name,
                                                 << >>)],
             history |-> Append(h, StepLog("error", next_action.tool_name, NoResult)),
             ret |-> NotReturned, calls |-> << >>]

OrchIterate(t, h, registered, behaviour) ==
    LET next_action == _decide_next_action(t.initial_goal, t.last_tool_result)
    IN IF next_action.none
       THEN [task |-> [t EXCEPT !.pc = "end",
                         !.final_answer =
                             IF ~t.last_tool_result.none /\ "error" \notin t.last_tool_result.keys
                             THEN Answer("based_on", "", << >>) ELSE @],
             history |-> Append(h, StepLog("decision", "no further action", NoResult)),
             ret |-> NotReturned, calls |-> << >>]
       ELSE IF next_action.tool_name \in registered
       THEN LET tool_name == next_action.tool_name
                h1 == Append(h, StepLog("tool_selection", tool_name, NoResult))
                r == orch_tool_function(tool_name, next_action.args, behaviour)
                calls == <<[tool |-> tool_name, behaviour |-> behaviour]>>
            IN IF r.outcome = "return"
               THEN LET h2 == Append(h1, StepLog("tool_execution", tool_name, r.value))
                    IN IF "error" \in r.value.keys
                       THEN LET final_answer == Answer("tool_error", tool_name, r.value.error)
                                h3 == Append(h2, StepLog("task_end", "failed", NoResult))
                            IN [task |-> [t EXCEPT !.pc = "returned",
                                            !.last_tool_result = r.value,
                                            !.final_answer = final_answer],
                                history |-> h3,
                                ret |-> TaskResult(t.initial_goal, "failed", final_answer, h3),
                                calls |-> calls]
                       ELSE [task |-> [t EXCEPT !.last_tool_result = r.value,
                                         !.step_count = @ + 1],
                             history |-> h2, ret |-> NotReturned, calls |-> calls]
               ELSE LET last == OrchResult({"error"}, "",
                                    <<"Orchestrator failed to execute tool ", tool_name,
                                      ": ", r.text>>)
                    IN [task |-> [t EXCEPT !.pc = "end", !.last_tool_result = last,
                                    !.final_answer = Answer("execution_error", tool_name,
                                                            last.error)],
                        history |-> Append(h1, StepLog("tool_execution_error", tool_name, last)),
                        ret |-> NotReturned, calls |-> calls]
       ELSE [task |-> [t EXCEPT !.pc = "end",
                         !.final_answer = Answer("tool_not_recognized", next_action.tool_name,
                                                 << >>)],
             history |-> Append(h, StepLog("error", next_action.tool_name, NoResult)),
             ret |-> NotReturned, calls |-> << >>]

\* A for-else clause that goes back to the loop instead of falling through.
OrchMaxSteps_mutant_keep_looping(t, h) == [task |-> t, history |-> h]

\* execute_task, lines 132-137: the else clause of the for loop.
OrchMaxSteps(t, h) ==
    [task |-> [t EXCEPT !.pc = "end",
                 !.final_answer =
                     IF Falsy(t.last_tool_result) \/ "error" \in t.last_tool_result.keys
                     THEN Answer("too_many_steps", "", << >>)
                     ELSE Answer("after_max_steps", "", << >>)],
     history |-> Append(h, StepLog("max_steps_reached", "task stopped", NoResult))]

\* execute_task, lines 140-141: log task_end and return.
OrchEnd(t, h) ==
    LET h1 == Append(h, StepLog("task_end", "completed", NoResult))
    IN [task |-> [t EXCEPT !.pc = "returned"],
        history |-> h1,
        ret |-> TaskResult(t.initial_goal, "completed", t.final_answer, h1)]

\* self.max_steps = 5
max_steps_default == 5

\* The largest value a caller sets self.max_steps to.
MaxStepsBound == 3

\* SimpleOrchestrator.__init__
OrchInit ==
    /\ tools = DefaultTools
    /\ max_steps = max_steps_default
    /\ history = << >>
    /\ task = Idle
    /\ task_return = NotReturned
    /\ orch_spy = [decisions |-> 0, calls |-> << >>]

OrchParked ==
    /\ tools = DefaultTools
    /\ max_steps = max_steps_default
    /\ history = << >>
    /\ task = Idle
    /\ task_return = NotReturned
    /\ orch_spy = [decisions |-> 0, calls |-> << >>]

\* The caller sets the public attribute max_steps between two tasks.
SetMaxSteps ==
    \E n \in 1..MaxStepsBound :
        /\ task.pc \in {"idle", "returned"}
        /\ max_steps' = n
        /\ UNCHANGED <<tools, history, task, task_return, orch_spy>>

\* The caller removes a tool from the public dict self.tools between two tasks.
UnregisterTool ==
    \E tool_name \in tools :
        /\ task.pc \in {"idle", "returned"}
        /\ tools' = tools \ {tool_name}
        /\ UNCHANGED <<max_steps, history, task, task_return, orch_spy>>

StartTask ==
    \E goal \in Goals :
        /\ task.pc \in {"idle", "returned"}
        /\ task' = OrchStart(goal, max_steps).task
        /\ history' = OrchStart(goal, max_steps).history
        /\ task_return' = NotReturned
        /\ orch_spy' = [decisions |-> 0, calls |-> << >>]
        /\ UNCHANGED <<tools, max_steps>>

Iterate ==
    \E behaviour \in ToolBehaviours :
        /\ task.pc = "loop"
        /\ task.step_count < task.range_stop
        /\ LET r == OrchIterate(task, history, tools, behaviour)
           IN /\ task' = r.task
              /\ history' = r.history
              /\ task_return' = r.ret
              /\ orch_spy' = [decisions |-> orch_spy.decisions + 1,
                              calls |-> orch_spy.calls \o
                                  [i \in 1..Len(r.calls) |->
                                      [tool |-> r.calls[i].tool,
                                       behaviour |-> r.calls[i].behaviour,
                                       decision |-> orch_spy.decisions + 1]]]
        /\ UNCHANGED <<tools, max_steps>>

MaxStepsReached ==
    /\ task.pc = "loop"
    /\ task.step_count >= task.range_stop
    /\ task' = OrchMaxSteps(task, history).task
    /\ history' = OrchMaxSteps(task, history).history
    /\ UNCHANGED <<tools, max_steps, task_return, orch_spy>>

EndTask ==
    /\ task.pc = "end"
    /\ task' = OrchEnd(task, history).task
    /\ history' = OrchEnd(task, history).history
    /\ task_return' = OrchEnd(task, history).ret
    /\ UNCHANGED <<tools, max_steps, orch_spy>>

OrchNext == SetMaxSteps \/ UnregisterTool \/ StartTask \/ Iterate \/ MaxStepsReached \/ EndTask

(***************************************************************************)
(* SimpleOrchestrator called several times: self.history by identity       *)
(*                                                                         *)
(* execute_task rebinds self.history to a new list (line 92), _log_step    *)
(* appends to whichever list the attribute refers to when it runs, and the *)
(* returned dict holds a reference to the list the attribute refers to at  *)
(* the return (lines 122, 141).  Here the lists are objects: lists[i] is   *)
(* the content of the i-th list created, self_history the index of the one *)
(* self.history refers to.  The content an iteration appends is computed   *)
(* by OrchStart, OrchIterate, OrchMaxSteps and OrchEnd above.              *)
(***************************************************************************)

\* The goals the calls are made with.
CallGoals ==
    {"What is the time?",
     "Tell me about the capital of France and then what is the time.",
     "Define python for me."}

\* How many execute_task calls are made one after the other.
MaxCalls == 3
Calls == 1..MaxCalls

\* The two threads that call execute_task on the same instance.
Threads == {"t1", "t2"}

\* A statement that keeps appending to the list self.history already refers to.
ResetHistory_mutant_no_reset(ls, ref) == [lists |-> ls, ref |-> ref]

\* self.history.clear(): empties the list in place instead of creating one.
ResetHistory_mutant_clear_in_place(ls, ref) ==
    [lists |-> [ls EXCEPT ![ref] = << >>], ref |-> ref]

\* self.history = []  (line 92): a new list object, and the attribute rebound to it.
ResetHistory(ls, ref) == [lists |-> Append(ls, << >>), ref |-> Len(ls) + 1]

\* self.history.append(step_log) for each of the entries, in _log_step.
LogSteps(ls, ref, entries) == [ls EXCEPT ![ref] = @ \o entries]

\* The returned dict, with "history": self.history as a reference.
ResultRef(ret, ref) == [ret EXCEPT !.history = ref]

NoSpy == [logged |-> << >>, calls |-> << >>, snapshot |-> << >>]

\* SimpleOrchestrator.__init__: self.history = [] (line 49); no call yet.
CallsInit(callers) ==
    /\ tools = DefaultTools
    /\ max_steps = max_steps_default
    /\ lists = << << >> >>
    /\ self_history = 1
    /\ frames = [c \in callers |-> Idle]
    /\ results = [c \in callers |-> NotReturned]
    /\ call_spy = [c \in callers |-> NoSpy]

CallsParked ==
    /\ lists = << << >> >>
    /\ self_history = 1
    /\ frames = << >>
    /\ results = << >>
    /\ call_spy = << >>

\* execute_task, lines 91-99, by call c.
CallStart(c) ==
    \E goal \in CallGoals :
        /\ frames[c].pc = "idle"
        /\ LET reset == ResetHistory(lists, self_history)
               start == OrchStart(goal, max_steps)
           IN /\ lists' = LogSteps(reset.lists, reset.ref, start.history)
              /\ self_history' = reset.ref
              /\ frames' = [frames EXCEPT ![c] = start.task]
              /\ call_spy' = [call_spy EXCEPT ![c] = [NoSpy EXCEPT !.logged = start.history]]
        /\ UNCHANGED <<tools, max_steps, results>>

\* execute_task, lines 99-131, by call c: one iteration of the loop.
CallIterate(c) ==
    \E behaviour \in ToolBehaviours :
        /\ frames[c].pc = "loop"
        /\ frames[c].step_count < frames[c].range_stop
        /\ LET r == OrchIterate(frames[c], << >>, tools, behaviour)
               ls == LogSteps(lists, self_history, r.history)
           IN /\ lists' = ls
              /\ frames' = [frames EXCEPT ![c] = r.task]
              /\ results' = IF r.ret.returned
                            THEN [results EXCEPT ![c] = ResultRef(r.ret, self_history)]
                            ELSE results
              /\ call_spy' = [call_spy EXCEPT ![c] =
                                 [logged |-> @.logged \o r.history,
                                  calls |-> @.calls \o r.calls,
                                  snapshot |-> IF r.ret.returned THEN ls[self_history]
                                               ELSE @.snapshot]]
        /\ UNCHANGED <<tools, max_steps, self_history>>

\* execute_task, lines 132-137, by call c.
CallMaxSteps(c) ==
    /\ frames[c].pc = "loop"
    /\ frames[c].step_count >= frames[c].range_stop
    /\ LET r == OrchMaxSteps(frames[c], << >>)
       IN /\ lists' = LogSteps(lists, self_history, r.history)
          /\ frames' = [frames EXCEPT ![c] = r.task]
          /\ call_spy' = [call_spy EXCEPT ![c].logged = @ \o r.history]
    /\ UNCHANGED <<tools, max_steps, self_history, results>>

\* execute_task, lines 140-141, by call c.
CallEnd(c) ==
    /\ frames[c].pc = "end"
    /\ LET r == OrchEnd(frames[c], << >>)
           ls == LogSteps(lists, self_history, r.history)
       IN /\ lists' = ls
          /\ frames' = [frames EXCEPT ![c] = r.task]
          /\ results' = [results EXCEPT ![c] = ResultRef(r.ret, self_history)]
          /\ call_spy' = [call_spy EXCEPT ![c].logged = @ \o r.history,
                                          ![c].snapshot = ls[self_history]]
    /\ UNCHANGED <<tools, max_steps, self_history>>

CallStep(c) == CallStart(c) \/ CallIterate(c) \/ CallMaxSteps(c) \/ CallEnd(c)

\* Calls made one after the other by one caller: call c begins once the calls
\* before it have returned.
SequentialNext ==
    \E c \in Calls :
        /\ \A b \in Calls : b < c => frames[b].pc = "returned"
        /\ CallStep(c)

\* Two threads, each making one call; any thread takes the next step.
ThreadsNext == \E c \in Threads : CallStep(c)

(***************************************************************************)
(* Testable Item API (4_testing_fastapi.py)                                *)
(***************************************************************************)

\* id: Optional[int] = None / description: Optional[str] = None
NoId == 0
NoDescription == "None"

\* create_item is explored while the ids it assigns stay within this bound.
MaxItemId == 4

\* class Item (tags, which no handler reads, is left out).
Item(id, name, description, price) ==
    [id |-> id, name |-> name, description |-> description, price |-> price]

\* fake_items_db as the module defines it.
InitialItems ==
    <<Item(1, "Foo", "A foo item", "10.50"),
      Item(2, "Bar", "A bar item", "20.75"),
      Item(3, "Baz", "A baz item", "5.00")>>

\* A JSON body: the fields it sets and their values.
Body(fields, id, name, description, price) ==
    [fields |-> fields, id |-> id, name |-> name, description |-> description,
     price |-> price]

\* The bodies requests are sent with: POST with the one of
\* test_create_item_success, PUT with the one of test_update_item_success
\* carrying an "id" of its own besides.
NewItemBodies == {Body({"name", "price"}, NoId, "Qux", NoDescription, "15.00")}
UpdateBodies ==
    {Body({"id", "name", "description", "price"}, 2, "Updated Foo", "An updated foo", "12.99")}

\* Item(**body): fields the body does not set take their defaults.
ParseItem(body) ==
    Item(IF "id" \in body.fields THEN body.id ELSE NoId,
         body.name,
         IF "description" \in body.fields THEN body.description ELSE NoDescription,
         body.price)

\* The api-key header of a request (NoHeader: the request has none), and the
\* values the api_key parameter of a handler takes (NoKey is None).
NoHeader == "<no api-key header>"
HeaderValues == {NoHeader, "testsecretkey", "wrongkey"}
NoKey == "<None>"
ApiKeys == {NoKey, "testsecretkey", "wrongkey"}

\* The path parameter item_id.
PathIds == 1..MaxItemId \cup {999}

\* app.dependency_overrides: empty, or get_api_key overridden by one of the
\* two override functions of the module.
NoOverride == "none"
Overrides == {"override_get_api_key_always_valid", "override_get_api_key_always_invalid"}

\* An HTTP response: status code, "detail" of an error, the items of the body.
Response(status_code, detail, items) ==
    [status_code |-> status_code, detail |-> detail, items |-> items]

\* async def get_api_key(api_key = Depends(lambda: None)): returns its argument.
get_api_key(api_key) == IF api_key = "testsecretkey" THEN api_key ELSE api_key

\* What FastAPI passes a handler for Depends(get_api_key) on a client request:
\* the override's result if get_api_key is overridden, else get_api_key called
\* with the result of its own dependency, lambda: None.  The request's
\* headers are not read by any of them.
solve_get_api_key(overrides, headers) ==
    CASE overrides = "override_get_api_key_always_valid" ->
             [raised |-> FALSE, value |-> "mocked_valid_key_for_test",
              response |-> Response(0, "", << >>)]
      [] overrides = "override_get_api_key_always_invalid" ->
             [raised |-> TRUE, value |-> NoKey,
              response |-> Response(403, "Mocked Invalid API Key", << >>)]
      [] OTHER ->
             [raised |-> FALSE, value |-> get_api_key(NoKey),
              response |-> Response(0, "", << >>)]

RECURSIVE MaxItemIdOf(_)
\* max(i.id for i in fake_items_db)
MaxItemIdOf(db) ==
    IF Len(db) = 1 THEN db[1].id
    ELSE LET m == MaxItemIdOf(Tail(db)) IN IF db[1].id > m THEN db[1].id ELSE m

\* Each handler gives the new fake_items_db and the response.
HandlerResult(db, response) == [db |-> db, response |-> response]

\* async def read_items(skip, limit): fake_items_db[skip : skip + limit]
read_items(db, skip, limit) ==
    LET stop == IF skip + limit < Len(db) THEN skip + limit ELSE Len(db)
    IN HandlerResult(db, Response(200, "", SubSeq(db, skip + 1, stop)))

\* async def read_item(item_id)
read_item(db, item_id) ==
    IF \E i \in 1..Len(db) : db[i].id = item_id
    THEN LET idx == CHOOSE i \in 1..Len(db) :
                        db[i].id = item_id /\ \A j \in 1..(i - 1) : db[j].id # item_id
         IN HandlerResult(db, Response(200, "", <<db[idx]>>))
    ELSE HandlerResult(db, Response(404, "Item not found", << >>))

\* async def create_item(item, api_key)
create_item(db, item, api_key) ==
    IF api_key # "testsecretkey"
    THEN HandlerResult(db, Response(401, "Invalid or missing API Key for create", << >>))
    ELSE LET new_id == IF db # << >> THEN MaxItemIdOf(db) + 1 ELSE 1
             created == [item EXCEPT !.id = new_id]
         IN HandlerResult(Append(db, created), Response(201, "", <<created>>))

\* An update_item that does not look at api_key.
update_item_mutant_no_auth(db, item_id, item_update, api_key) ==
    IF \E i \in 1..Len(db) : db[i].id = item_id
    THEN LET idx == CHOOSE i \in 1..Len(db) : db[i].id = item_id
             updated == Item(item_id, item_update.name, db[idx].description, item_update.price)
         IN HandlerResult([db EXCEPT ![idx] = updated], Response(200, "", <<updated>>))
    ELSE HandlerResult(db, Response(404, "Item not found for update", << >>))

\* An update_item that lets the body's own "id" win over the path's item_id.
update_item_mutant_body_id(db, item_id, item_update, api_key) ==
    IF api_key # "testsecretkey"
    THEN HandlerResult(db, Response(401, "Invalid or missing API Key for update", << >>))
    ELSE IF \E i \in 1..Len(db) : db[i].id = item_id
    THEN LET idx == CHOOSE i \in 1..Len(db) : db[i].id = item_id
             updated == Item(IF "id" \in item_update.fields THEN item_update.id ELSE item_id,
                             item_update.name, item_update.description, item_update.price)
         IN HandlerResult([db EXCEPT ![idx] = updated], Response(200, "", <<updated>>))
    ELSE HandlerResult(db, Response(404, "Item not found for update", << >>))

\* async def update_item(item_id, item_update, api_key): the fields the body
\* sets (model_dump(exclude_unset=True)) replace those of the first item with
\* that id, and "id" is set to item_id.
update_item(db, item_id, item_update, api_key) ==
    IF api_key # "testsecretkey"
    THEN HandlerResult(db, Response(401, "Invalid or missing API Key for update", << >>))
    ELSE IF \E i \in 1..Len(db) : db[i].id = item_id
    THEN LET idx == CHOOSE i \in 1..Len(db) :
                        db[i].id = item_id /\ \A j \in 1..(i - 1) : db[j].id # item_id
             existing_item == db[idx]
             set(field) == field \in item_update.fields
             updated == Item(item_id,
                             IF set("name") THEN item_update.name ELSE existing_item.name,
                             IF set("description") THEN item_update.description
                             ELSE existing_item.description,
                             IF set("price") THEN item_update.price ELSE existing_item.price)
         IN HandlerResult([db EXCEPT ![idx] = updated], Response(200, "", <<updated>>))
    ELSE HandlerResult(db, Response(404, "Item not found for update", << >>))

\* A delete_item that removes the item at position item_id of the list.
delete_item_mutant_by_position(db, item_id, api_key) ==
    IF api_key # "testsecretkey"
    THEN HandlerResult(db, Response(401, "Invalid or missing API Key for delete", << >>))
    ELSE IF item_id \in 1..Len(db)
    THEN HandlerResult(SubSeq(db, 1, item_id - 1) \o SubSeq(db, item_id + 1, Len(db)),
                       Response(204, "", << >>))
    ELSE HandlerResult(db, Response(404, "Item not found for delete", << >>))

\* async def delete_item(item_id, api_key)
delete_item(db, item_id, api_key) ==
    IF api_key # "testsecretkey"
    THEN HandlerResult(db, Response(401, "Invalid or missing API Key for delete", << >>))
    ELSE LET original_len == Len(db)
             kept == SelectSeq(db, LAMBDA item : item.id # item_id)
         IN IF Len(kept) = original_len
            THEN HandlerResult(kept, Response(404, "Item not found for delete", << >>))
            ELSE HandlerResult(kept, Response(204, "", << >>))

\* Who calls a handler: the TestClient, with or without an api-key header
\* (FastAPI then solves Depends(get_api_key)), or code that calls the handler
\* function itself and passes api_key.
Callers ==
    [via : {"client"}, headers : HeaderValues, api_key : {NoKey}]
        \cup [via : {"direct"}, headers : {NoHeader}, api_key : ApiKeys \ {NoKey}]

\* The api_key argument the handler gets, or the response of a dependency
\* that raised.
ApiKeyArgument(caller, overrides) ==
    IF caller.via = "client"
    THEN solve_get_api_key(overrides, caller.headers)
    ELSE [raised |-> FALSE, value |-> caller.api_key, response |-> Response(0, "", << >>)]

\* The TestClient sending a request without an api-key header.
PlainClient == [via |-> "client", headers |-> NoHeader, api_key |-> NoKey]

NoBody == Body({}, NoId, "", NoDescription, "")
NoRequest == [handler |-> "none"]

\* What is remembered of a request: the handler, who called, whether the
\* handler ran and with which api_key, its other arguments, and
\* fake_items_db and the overrides as they were before.
Request(handler, caller, k, item_id, body, db, overrides) ==
    [handler |-> handler, caller |-> caller, handler_ran |-> ~k.raised, api_key |-> k.value,
     item_id |-> item_id, body |-> body, db |-> db, overrides |-> overrides]

ItemsInit ==
    /\ fake_items_db = InitialItems
    /\ dependency_overrides = NoOverride
    /\ last_request = NoRequest
    /\ last_response = Response(0, "", << >>)

ItemsParked ==
    /\ fake_items_db = InitialItems
    /\ dependency_overrides = NoOverride
    /\ last_request = NoRequest
    /\ last_response = Response(0, "", << >>)

\* app.dependency_overrides[get_api_key] = override_...
\* (what was observed of the request before is dropped)
SetOverride ==
    \E o \in Overrides :
        /\ dependency_overrides' = o
        /\ last_request' = NoRequest
        /\ last_response' = Response(0, "", << >>)
        /\ UNCHANGED fake_items_db

\* app.dependency_overrides = {}
ClearOverrides ==
    /\ dependency_overrides' = NoOverride
    /\ last_request' = NoRequest
    /\ last_response' = Response(0, "", << >>)
    /\ UNCHANGED fake_items_db

\* GET /items/
ReadItems ==
    \E window \in {<<0, 10>>, <<1, 2>>} :
      LET skip == window[1]
          limit == window[2]
      IN
        /\ last_request' = Request("read_items", PlainClient,
                                   [raised |-> FALSE, value |-> NoKey], skip, NoBody,
                                   fake_items_db, dependency_overrides)
        /\ last_response' = read_items(fake_items_db, skip, limit).response
        /\ UNCHANGED <<fake_items_db, dependency_overrides>>

\* GET /items/{item_id}
ReadItem ==
    \E item_id \in PathIds :
        /\ last_request' = Request("read_item", PlainClient,
                                   [raised |-> FALSE, value |-> NoKey], item_id, NoBody,
                                   fake_items_db, dependency_overrides)
        /\ last_response' = read_item(fake_items_db, item_id).response
        /\ UNCHANGED <<fake_items_db, dependency_overrides>>

\* POST /items/
CreateItem ==
    \E caller \in Callers, body \in NewItemBodies :
        LET k == ApiKeyArgument(caller, dependency_overrides)
            r == IF k.raised THEN HandlerResult(fake_items_db, k.response)
                 ELSE create_item(fake_items_db, ParseItem(body), k.value)
        IN /\ r.db # fake_items_db => MaxItemIdOf(r.db) <= MaxItemId
           /\ fake_items_db' = r.db
           /\ last_request' = Request("create_item", caller, k, NoId, body,
                                      fake_items_db, dependency_overrides)
           /\ last_response' = r.response
           /\ UNCHANGED dependency_overrides

\* PUT /items/{item_id}
UpdateItem ==
    \E caller \in Callers, item_id \in PathIds, body \in UpdateBodies :
        LET k == ApiKeyArgument(caller, dependency_overrides)
            r == IF k.raised THEN HandlerResult(fake_items_db, k.response)
                 ELSE update_item(fake_items_db, item_id, body, k.value)
        IN /\ fake_items_db' = r.db
           /\ last_request' = Request("update_item", caller, k, item_id, body,
                                      fake_items_db, dependency_overrides)
           /\ last_response' = r.response
           /\ UNCHANGED dependency_overrides

\* DELETE /items/{item_id}
DeleteItem ==
    \E caller \in Callers, item_id \in PathIds :
        LET k == ApiKeyArgument(caller, dependency_overrides)
            r == IF k.raised THEN HandlerResult(fake_items_db, k.response)
                 ELSE delete_item(fake_items_db, item_id, k.value)
        IN /\ fake_items_db' = r.db
           /\ last_request' = Request("delete_item", caller, k, item_id, NoBody,
                                      fake_items_db, dependency_overrides)
           /\ last_response' = r.response
           /\ UNCHANGED dependency_overrides

ItemsNext ==
    \/ SetOverride \/ ClearOverrides
    \/ ReadItems \/ ReadItem
    \/ CreateItem \/ UpdateItem \/ DeleteItem

exampleVars == <<orderVars, poolVars, logVars>>
ExamplesParked == OrderParked /\ PoolParked /\ AgentParked

Init == SMInit /\ ToolsParked /\ OrchParked /\ CallsParked /\ ItemsParked /\ ExamplesParked
Next == SMNext /\ UNCHANGED <<exampleVars, toolVars, orchVars, callVars, itemVars>>
Spec == Init /\ [][Next]_vars

ToolsSpecInit == ToolsInit /\ SMParked /\ OrchParked /\ CallsParked /\ ItemsParked /\ ExamplesParked
ToolsSpecNext == ToolsNext /\ UNCHANGED <<exampleVars, smVars, orchVars, callVars, itemVars>>
SpecTools == ToolsSpecInit /\ [][ToolsSpecNext]_vars

OrchSpecInit == OrchInit /\ SMParked /\ ToolsParked /\ CallsParked /\ ItemsParked /\ ExamplesParked
OrchSpecNext == OrchNext /\ UNCHANGED <<exampleVars, smVars, toolVars, callVars, itemVars>>
SpecOrch == OrchSpecInit /\ [][OrchSpecNext]_vars

\* execute_task is straight-line synchronous code: once called it keeps
\* executing, and a tool callable that is invoked returns or raises.
SpecOrchFair ==
    /\ SpecOrch
    /\ WF_orchVars(Iterate)
    /\ WF_orchVars(MaxStepsReached)
    /\ WF_orchVars(EndTask)

\* The variables of a single call stay as the constructor left them.
CallsSpecParked ==
    /\ history = << >>
    /\ task = Idle
    /\ task_return = NotReturned
    /\ orch_spy = [decisions |-> 0, calls |-> << >>]

SequentialInit ==
    CallsInit(Calls) /\ CallsSpecParked /\ SMParked /\ ToolsParked /\ ItemsParked /\ ExamplesParked
SequentialSpecNext ==
    SequentialNext
        /\ UNCHANGED <<exampleVars, smVars, toolVars, itemVars, history, task, task_return, orch_spy>>
SpecCalls == SequentialInit /\ [][SequentialSpecNext]_vars

ThreadsInit ==
    CallsInit(Threads) /\ CallsSpecParked /\ SMParked /\ ToolsParked /\ ItemsParked /\ ExamplesParked
ThreadsSpecNext ==
    ThreadsNext
        /\ UNCHANGED <<exampleVars, smVars, toolVars, itemVars, history, task, task_return, orch_spy>>
SpecThreads == ThreadsInit /\ [][ThreadsSpecNext]_vars

OrderSpecInit ==
    OrderInit /\ ToolsParked /\ OrchParked /\ CallsParked /\ ItemsParked /\ PoolParked /\ AgentParked
OrderSpecNext == OrderHandleEvent /\ UNCHANGED <<logVars, poolVars, toolVars, orchVars, callVars, itemVars>>
SpecOrder == OrderSpecInit /\ [][OrderSpecNext]_vars

PoolSpecInit ==
    /\ PoolInit /\ SMParked /\ ToolsParked /\ OrchParked /\ CallsParked /\ ItemsParked
    /\ OrderParked /\ AgentParked
PoolSpecNext == PoolNext /\ UNCHANGED <<logVars, smVars, toolVars, orchVars, callVars, itemVars, orderVars>>
SpecPool == PoolSpecInit /\ [][PoolSpecNext]_vars

AgentSpecInit ==
    /\ AgentInit /\ SMParked /\ ToolsParked /\ OrchParked /\ CallsParked /\ ItemsParked
    /\ OrderParked /\ PoolParked
AgentSpecNext ==
    AgentNext /\ UNCHANGED <<smVars, toolVars, orchVars, callVars, itemVars, orderVars, poolVars>>
SpecAgent == AgentSpecInit /\ [][AgentSpecNext]_vars

ItemsSpecInit == ItemsInit /\ SMParked /\ ToolsParked /\ OrchParked /\ CallsParked /\ ExamplesParked
ItemsSpecNext == ItemsNext /\ UNCHANGED <<exampleVars, smVars, toolVars, orchVars, callVars>>
SpecItems == ItemsSpecInit /\ [][ItemsSpecNext]_vars

(***************************************************************************)
(* Properties of AgentStateMachine.handle_event                            *)
(***************************************************************************)

\* The most recent call was made in a state with a transition for its event.
\* (Registrations clear last_call, so the tables are those the call saw.)
LastCallRegistered ==
    /\ last_call.called
    /\ <<last_call.old_state, last_call.event>> \in RegisteredPairs(_transitions)

LastCallTarget == _transitions[last_call.old_state][last_call.event]

\* What a complete transition invokes: the old state's exit action, then the
\* new state's entry action, each once, with the event data.
ExpectedCalls ==
    (IF last_call.old_state \in _on_exit_actions
     THEN <<ActionCall("on_exit", last_call.old_state, last_call.data)>> ELSE << >>)
    \o
    (IF LastCallTarget \in _on_enter_actions
     THEN <<ActionCall("on_enter", LastCallTarget, last_call.data)>> ELSE << >>)

\* Which invoked action, if any, raised in the most recent call.
LastCallRaiser ==
    IF last_call.exit_raises /\ last_call.old_state \in _on_exit_actions THEN "on_exit"
    ELSE IF last_call.enter_raises /\ LastCallTarget \in _on_enter_actions THEN "on_enter"
    ELSE "none"

\* C1: for a registered (state, event) pair handle_event never returns False;
\* when it returns it returns True, current_state is the declared target and
\* the callbacks invoked are exactly the old state's exit action followed by
\* the new state's entry action (those that are registered), each once with
\* the event data; and it returns whenever no invoked action raises.  Even
\* when an action raises, the entry action never runs before the exit action.
C1_RegisteredTransition ==
    LastCallRegistered =>
        /\ last_call.ret # "False"
        /\ LastCallRaiser = "none" => last_call.ret = "True"
        /\ last_call.ret = "True" =>
               /\ current_state = LastCallTarget
               /\ last_call.calls = ExpectedCalls
        /\ last_call.calls = SubSeq(ExpectedCalls, 1, Len(last_call.calls))

\* C1 witness: a registered transition between two different states ran both
\* an exit and an entry action and returned True.
C1_Witness ==
    /\ LastCallRegistered
    /\ last_call.ret = "True"
    /\ last_call.old_state # current_state
    /\ Len(last_call.calls) = 2
    /\ last_call.calls[1].kind = "on_exit"
    /\ last_call.calls[2].kind = "on_enter"

\* C2: for a (state, event) pair absent from the table handle_event returns
\* False, leaves current_state unchanged and invokes no entry or exit action.
C2_AbsentPairIsNoOp ==
    (last_call.called /\ ~LastCallRegistered) =>
        /\ last_call.ret = "False"
        /\ current_state = last_call.old_state
        /\ last_call.calls = << >>

\* C2 witness: PAYMENT_RECEIVED handled in PENDING_PAYMENT with no transition
\* registered for that pair, while other transitions and the actions of
\* PENDING_PAYMENT are registered.
C2_Witness ==
    /\ last_call.called
    /\ ~LastCallRegistered
    /\ last_call.old_state = "PENDING_PAYMENT"
    /\ last_call.event = "PAYMENT_RECEIVED"
    /\ current_state = "PENDING_PAYMENT"
    /\ last_call.ret = "False"
    /\ "PENDING_PAYMENT" \in DOMAIN _transitions
    /\ "PENDING_PAYMENT" \in _on_exit_actions \cap _on_enter_actions

\* C3 as stated: whenever the exit action of the old state or the entry
\* action of the new state raises, the failure propagates and current_state
\* is the target state.
C3_Original ==
    (LastCallRegistered /\ LastCallRaiser # "none") =>
        /\ last_call.ret = "raised"
        /\ current_state = LastCallTarget

\* C3 amended: a raising action propagates out of handle_event; if it is the
\* entry action of the new state, current_state is the target state; if it
\* is the exit action of the old state, current_state is still the old state
\* and the entry action has not been invoked.
C3_RaisingAction ==
    (LastCallRegistered /\ LastCallRaiser # "none") =>
        /\ last_call.ret = "raised"
        /\ LastCallRaiser = "on_enter" =>
               /\ current_state = LastCallTarget
               /\ last_call.calls = ExpectedCalls
        /\ LastCallRaiser = "on_exit" =>
               /\ current_state = last_call.old_state
               /\ last_call.calls =
                      <<ActionCall("on_exit", last_call.old_state, last_call.data)>>

\* C3 witness: the exit action of the old state raised on a transition to a
\* different state that has an entry action.
C3_Witness ==
    /\ LastCallRegistered
    /\ LastCallRaiser = "on_exit"
    /\ last_call.ret = "raised"
    /\ LastCallTarget # last_call.old_state
    /\ LastCallTarget \in _on_enter_actions
    /\ current_state = last_call.old_state

(***************************************************************************)
(* Properties of use_tool                                                  *)
(***************************************************************************)

\* The ways arguments violate a tool's input contract.
MissingRequiredField(tool_name, raw_args) ==
    \E f \in input_model(tool_name) : f.required /\ f.name \notin DOMAIN raw_args
WrongFieldType(tool_name, raw_args) ==
    \E f \in input_model(tool_name) :
        /\ f.name \in DOMAIN raw_args
        /\ raw_args[f.name].type # "str"
        /\ ~(f.nullable /\ raw_args[f.name].type = "NoneType")
ConstraintViolated(tool_name, raw_args) ==
    \E f \in input_model(tool_name) :
        /\ f.name \in DOMAIN raw_args
        /\ raw_args[f.name].type = "str"
        /\ Len(raw_args[f.name].val) < f.min_length
ViolatesInputContract(tool_name, raw_args) ==
    \/ MissingRequiredField(tool_name, raw_args)
    \/ WrongFieldType(tool_name, raw_args)
    \/ ConstraintViolated(tool_name, raw_args)

IsErrorResult(ret) ==
    \/ ret.model = "ToolErrorOutput"
    \/ ret.model = "dict" /\ "error" \in ret.keys
Mentions(message, text) == \E i \in 1..Len(message) : message[i] = text

PydanticCallDone ==
    /\ tool_outcome.called
    /\ tool_request.agent = "PydanticToolAgent"
    /\ tool_request.tool_name \in PydanticTools

\* C4: a PydanticToolAgent.use_tool call whose arguments violate the tool's
\* input contract (a required field missing, a field of the wrong type, a
\* declared constraint violated) returns the invalid-input error result and
\* never calls the tool's callable.
C4_InvalidInputNeverRuns ==
    (PydanticCallDone /\ ViolatesInputContract(tool_request.tool_name, tool_request.raw_args)) =>
        /\ ~tool_outcome.propagated
        /\ tool_outcome.ret.model = "ToolErrorOutput"
        /\ tool_outcome.ret.error =
               <<"Invalid inputs for tool '", tool_request.tool_name, "'.">>
        /\ tool_outcome.ret.details = tool_request.raw_args
        /\ tool_calls = << >>

\* C4 witness: search_information called with a query shorter than its
\* declared min_length (and nothing else wrong) was rejected.
C4_Witness ==
    /\ PydanticCallDone
    /\ tool_request.tool_name = "search_information"
    /\ ConstraintViolated("search_information", tool_request.raw_args)
    /\ ~MissingRequiredField("search_information", tool_request.raw_args)
    /\ ~WrongFieldType("search_information", tool_request.raw_args)
    /\ tool_outcome.ret.model = "ToolErrorOutput"
    /\ tool_calls = << >>

\* C5: when the registered callable raises inside use_tool (of either agent),
\* use_tool returns an error result whose message names the tool and carries
\* the text of the exception, and the exception does not leave use_tool.
C5_RaisingToolIsReported ==
    (tool_outcome.called /\ \E i \in 1..Len(tool_calls) : tool_calls[i].raised) =>
        /\ ~tool_outcome.propagated
        /\ IsErrorResult(tool_outcome.ret)
        /\ Mentions(tool_outcome.ret.error, tool_request.tool_name)
        /\ \A i \in 1..Len(tool_calls) :
               tool_calls[i].raised => Mentions(tool_outcome.ret.error, tool_calls[i].text)

\* C5 witness: search_information_pydantic ran on validated inputs and raised
\* (search_engine = None passes the input model but not the output model).
C5_Witness ==
    /\ PydanticCallDone
    /\ Len(tool_calls) = 1
    /\ tool_calls[1].raised
    /\ tool_calls[1].tool = "search_information"
    /\ IsErrorResult(tool_outcome.ret)
    /\ ~tool_outcome.propagated

\* C16: get_weather invoked through PydanticToolAgent.use_tool with an
\* empty-string location is rejected as invalid input and
\* get_weather_pydantic is not run.
C16_Original ==
    (/\ PydanticCallDone
     /\ tool_request.tool_name = "get_weather"
     /\ "location" \in DOMAIN tool_request.raw_args
     /\ tool_request.raw_args["location"] = Str("")) =>
        /\ tool_outcome.ret.model = "ToolErrorOutput"
        /\ tool_outcome.ret.error = <<"Invalid inputs for tool '", "get_weather", "'.">>
        /\ tool_calls = << >>

(***************************************************************************)
(* Properties of SimpleOrchestrator.execute_task                           *)
(***************************************************************************)

\* The two values of "status" in the code: the one a successful task gets
\* and the one a failed task gets.
SuccessStatus == "completed"
FailureStatus == "failed"

TaskReturned == task.pc = "returned" /\ task_return.returned

\* execute_task has returned and the entry logged just before task_end has
\* this action type (which tells how the loop ended).
EndedBy(action_type) ==
    /\ TaskReturned
    /\ Len(task_return.history) >= 2
    /\ task_return.history[Len(task_return.history) - 1].action_type = action_type

HasEntry(action_type) ==
    \E i \in 1..Len(task_return.history) : task_return.history[i].action_type = action_type

LastResultIsGood ==
    ~task.last_tool_result.none /\ "error" \notin task.last_tool_result.keys

\* C6: when the decision function returns no action, the task ends with the
\* success status if a last tool result exists and carries no error, and
\* with the failure status otherwise (also when no tool was ever run).
C6_Original ==
    EndedBy("decision") =>
        IF LastResultIsGood
        THEN task_return.status = SuccessStatus
        ELSE task_return.status = FailureStatus

\* C7: once a tool returns an error output the task has ended, with the
\* failure status: that invocation is the last one (no retry), no decision
\* was taken after the one that selected it, and the final answer names the
\* tool and embeds the tool's error message.
C7_ErrorOutputFailsTask ==
    \A i \in 1..Len(orch_spy.calls) :
        orch_spy.calls[i].behaviour = "error_output" =>
            /\ TaskReturned
            /\ task_return.status = FailureStatus
            /\ i = Len(orch_spy.calls)
            /\ orch_spy.calls[i].decision = orch_spy.decisions
            /\ task_return.answer.kind = "tool_error"
            /\ task_return.answer.tool = orch_spy.calls[i].tool
            /\ task_return.answer.error = ErrorOutput.error
            /\ Mentions(task_return.answer.error, "division by zero")
            /\ task_return.history[Len(task_return.history)] =
                   StepLog("task_end", "failed", NoResult)

\* C7 witness: a tool returned an error output at the second step, after a
\* successful first step, and the task failed.
C7_Witness ==
    /\ TaskReturned
    /\ task_return.status = FailureStatus
    /\ Len(orch_spy.calls) = 2
    /\ orch_spy.calls[1].behaviour = "returns"
    /\ orch_spy.calls[2].behaviour = "error_output"

\* C8: when a tool invocation raises inside execute_task, the orchestrator
\* records a tool_execution_error entry and the task ends with the failure
\* status; execute_task returns (it does not raise) whatever the tool does.
C8_Original ==
    (TaskReturned /\ \E i \in 1..Len(orch_spy.calls) : orch_spy.calls[i].behaviour = "raises") =>
        /\ HasEntry("tool_execution_error")
        /\ task_return.status = FailureStatus

\* C9: when the decision function selects a tool that is not registered, no
\* tool is run for that decision and the task ends with the failure status.
C9_Original ==
    EndedBy("error") =>
        /\ \A i \in 1..Len(orch_spy.calls) : orch_spy.calls[i].decision # orch_spy.decisions
        /\ task_return.status = FailureStatus

\* C10: if the decision function returned an action at every step and every
\* tool invocation succeeded, exactly max_steps tool invocations were made
\* (max_steps as it was when the task started) and the task ended with a
\* step-limit status that is neither the success nor the failure status.
C10_Original ==
    (/\ TaskReturned
     /\ ~HasEntry("decision")
     /\ ~HasEntry("error")
     /\ \A i \in 1..Len(orch_spy.calls) : orch_spy.calls[i].behaviour = "returns") =>
        /\ Len(orch_spy.calls) = task.range_stop
        /\ HasEntry("max_steps_reached")
        /\ task_return.status \notin {SuccessStatus, FailureStatus}

\* The call in progress (or the one that returned last) took a decision
\* that returned no action.
NoActionDecided ==
    /\ task.pc # "idle"
    /\ \E i \in 1..Len(history) : history[i].action_type = "decision"

\* C11: execute_task terminates after at most max_steps decide-execute
\* iterations whatever the decisions and the tool behaviours are: the number
\* of decisions (and of tool invocations) never exceeds the range the loop
\* iterates over, and a call that is in its loop eventually returns.  Once
\* the decision function returned no action the loop has stopped in that
\* same iteration: the call is past its loop and that last decision invoked
\* no tool.
C11_Terminates ==
    /\ [](task.pc # "idle" =>
            /\ orch_spy.decisions <= task.range_stop
            /\ Len(orch_spy.calls) <= orch_spy.decisions)
    /\ [](NoActionDecided =>
            /\ task.pc \in {"end", "returned"}
            /\ \A i \in 1..Len(orch_spy.calls) :
                   orch_spy.calls[i].decision < orch_spy.decisions)
    /\ [](task.pc = "loop" => <>TaskReturned)

\* C11 witness: a call returned after as many decisions as the loop allows,
\* the last of which returned no action.
C11_Witness ==
    /\ TaskReturned
    /\ NoActionDecided
    /\ orch_spy.decisions = task.range_stop
    /\ Len(orch_spy.calls) = task.range_stop - 1
    /\ task.range_stop >= 2

\* The action types of the entries of a history, in order.
ActionTypes(h) == [i \in 1..Len(h) |-> h[i].action_type]

\* A call with the goal "What is the time?" has returned; the tool it selected
\* was registered and returned its result, and the loop was allowed the two
\* iterations the scenario takes.
TimeTaskReturned ==
    /\ TaskReturned
    /\ task.initial_goal = "What is the time?"
    /\ task.range_stop >= 2
    /\ ~HasEntry("error")
    /\ \A i \in 1..Len(orch_spy.calls) : orch_spy.calls[i].behaviour = "returns"

\* The decision function selected get_current_time exactly once and then
\* returned no action, and the status is the success status.
TimeTaskDecisions ==
    /\ orch_spy.decisions = 2
    /\ orch_spy.calls = <<[tool |-> "get_current_time", behaviour |-> "returns", decision |-> 1]>>
    /\ _decide_next_action(task.initial_goal, NoResult) = Action("get_current_time", "")
    /\ _decide_next_action(task.initial_goal, get_current_time) = NoAction
    /\ task_return.status = SuccessStatus

\* C13 as stated: for the goal "What is the time?" the decision function
\* selects get_current_time exactly once and then returns no action;
\* execute_task returns the success status and a history consisting of
\* exactly one tool_selection entry, one tool_execution entry and a single
\* termination entry.
C13_Original ==
    TimeTaskReturned =>
        /\ TimeTaskDecisions
        /\ ActionTypes(task_return.history) = <<"tool_selection", "tool_execution", "task_end">>

\* C13 amended: same decisions and status; the history has five entries:
\* task_start, the tool_selection and the tool_execution of get_current_time,
\* the decision entry of the no-action decision, and task_end.
C13_TimeTask ==
    TimeTaskReturned =>
        /\ TimeTaskDecisions
        /\ task_return.history =
               <<StepLog("task_start", "What is the time?", NoResult),
                 StepLog("tool_selection", "get_current_time", NoResult),
                 StepLog("tool_execution", "get_current_time", get_current_time),
                 StepLog("decision", "no further action", NoResult),
                 StepLog("task_end", "completed", NoResult)>>
        /\ task_return.answer.kind = "based_on"

\* C13 witness: the time task has returned on an orchestrator with the
\* constructor's max_steps.
C13_Witness ==
    /\ TimeTaskReturned
    /\ task.range_stop = max_steps_default
    /\ Len(task_return.history) = 5

(***************************************************************************)
(* Properties of several execute_task calls on one SimpleOrchestrator      *)
(***************************************************************************)

CallReturned(c) == frames[c].pc = "returned" /\ results[c].returned

\* The content of the list the dict returned by call c refers to.
ReturnedHistory(c) == lists[results[c].history]

\* The tool callables behaved as deterministic functions over calls a and b:
\* the same callable (each goal gives it the same arguments) did the same
\* thing every time it was invoked.
ToolsDeterministic(a, b) ==
    LET cs == call_spy[a].calls \o call_spy[b].calls
    IN \A i, j \in 1..Len(cs) : cs[i].tool = cs[j].tool => cs[i].behaviour = cs[j].behaviour

\* C12: with deterministic tools (the decision function of the code is
\* deterministic), two calls of execute_task with the same goal on one
\* orchestrator return the same status and histories of the same length
\* (both as they were at each return and as the returned lists are now),
\* also when other tasks were executed before or between them.
C12_Deterministic ==
    \A a, b \in Calls :
        (/\ CallReturned(a)
         /\ CallReturned(b)
         /\ results[a].goal = results[b].goal
         /\ ToolsDeterministic(a, b)) =>
            /\ results[a].status = results[b].status
            /\ results[a].answer = results[b].answer
            /\ Len(call_spy[a].snapshot) = Len(call_spy[b].snapshot)
            /\ Len(ReturnedHistory(a)) = Len(ReturnedHistory(b))

\* C12 witness: the first and the third call had the same goal and ran two
\* tools each, a call with another goal was made between them.
C12_Witness ==
    /\ \A c \in 1..3 : CallReturned(c)
    /\ results[1].goal = results[3].goal
    /\ results[2].goal # results[1].goal
    /\ ToolsDeterministic(1, 3)
    /\ Len(call_spy[1].calls) >= 2
    /\ Len(ReturnedHistory(2)) # Len(ReturnedHistory(3))
    /\ Len(ReturnedHistory(1)) = Len(ReturnedHistory(3))

\* C14: when two execute_task calls on the same instance run concurrently,
\* the history each call returns contains exactly the entries that call
\* logged and none of the other call's.
C14_Original ==
    \A t \in Threads :
        CallReturned(t) => call_spy[t].snapshot = call_spy[t].logged

\* C15: for calls made one after the other, the history each call returned
\* holds exactly the entries logged during that call, from its task_start
\* entry to its task_end entry, and the list object an earlier call returned
\* still has the content it had when that call returned, whatever later
\* calls did.
C15_HistoryPerCall ==
    \A c \in Calls :
        CallReturned(c) =>
            LET h == ReturnedHistory(c)
            IN /\ call_spy[c].snapshot = call_spy[c].logged
               /\ h = call_spy[c].snapshot
               /\ h[1] = StepLog("task_start", results[c].goal, NoResult)
               /\ h[Len(h)].action_type = "task_end"
               /\ \A i \in 2..(Len(h) - 1) : h[i].action_type \notin {"task_start", "task_end"}

\* C15 witness: a second call with another goal has returned after the first
\* one, and the first result still refers to a list of its own.
C15_Witness ==
    /\ CallReturned(1)
    /\ CallReturned(2)
    /\ results[1].goal # results[2].goal
    /\ results[1].history # results[2].history
    /\ Len(ReturnedHistory(1)) > Len(ReturnedHistory(2))

(***************************************************************************)
(* Properties of the Testable Item API                                     *)
(***************************************************************************)

\* The last request was answered by this handler, which ran.
HandlerRan(handler) == last_request.handler = handler /\ last_request.handler_ran

\* The handler that ran was given the API key the handlers accept.
Authorized == last_request.api_key = "testsecretkey"

HasItemWithId(db, item_id) == \E i \in 1..Len(db) : db[i].id = item_id

\* fake_items_db is what it was before the request plus one item, which the
\* response carries, whose id is non-null and is the previous maximum plus 1.
ItemStored ==
    /\ Len(last_response.items) = 1
    /\ fake_items_db = Append(last_request.db, last_response.items[1])
    /\ last_response.items[1].id # NoId
    /\ last_response.items[1].id = MaxItemIdOf(last_request.db) + 1
    /\ last_response.items[1].name = last_request.body.name

\* C17: a POST /items/ sent by the client with the header api-key:
\* testsecretkey (nothing overridden) is accepted: 201, and the item is
\* appended to fake_items_db with a non-null id, the previous maximum plus 1.
C17_Original ==
    (/\ last_request.handler = "create_item"
     /\ last_request.caller.via = "client"
     /\ last_request.caller.headers = "testsecretkey"
     /\ last_request.overrides = NoOverride
     /\ last_request.db # << >>) =>
        /\ last_response.status_code = 201
        /\ ItemStored

\* C18: with get_api_key overridden by override_get_api_key_always_valid, a
\* POST /items/ sent by the client without any key is accepted: 201, and the
\* item is stored.
C18_Original ==
    (/\ last_request.handler = "create_item"
     /\ last_request.caller.via = "client"
     /\ last_request.caller.headers = NoHeader
     /\ last_request.overrides = "override_get_api_key_always_valid"
     /\ last_request.db # << >>) =>
        /\ last_response.status_code = 201
        /\ ItemStored

C20_Delete ==
    (HandlerRan("delete_item") /\ Authorized) =>
        IF HasItemWithId(last_request.db, last_request.item_id)
        THEN /\ last_response.status_code = 204
             /\ ~HasItemWithId(fake_items_db, last_request.item_id)
             /\ read_item(fake_items_db, last_request.item_id).response.status_code = 404
             /\ fake_items_db =
                    SelectSeq(last_request.db, LAMBDA item : item.id # last_request.item_id)
             /\ Len(fake_items_db) = Len(last_request.db) - 1
        ELSE /\ last_response.status_code = 404
             /\ fake_items_db = last_request.db

\* C20 witness: the item with id 2 was deleted from a list that had been
\* changed before (item 1 deleted, an item created), the others staying.
C20_Witness ==
    /\ HandlerRan("delete_item")
    /\ Authorized
    /\ last_request.item_id = 2
    /\ last_response.status_code = 204
    /\ ~HasItemWithId(last_request.db, 1)
    /\ HasItemWithId(fake_items_db, 4)
    /\ Len(fake_items_db) = 2

(***************************************************************************)
(* Further properties of AgentStateMachine                                 *)
(***************************************************************************)

\* The most recent call on the machine was an add_transition.
JustRegistered == ~last_call.called /\ "registered" \in DOMAIN last_call

\* C24: the transition table holds one target per (state, event) pair, the
\* most recently registered one: right after add_transition(s, e, t) the
\* table maps (s, e) to t, also when the pair had another target before, and
\* handle_event(e) in state s moves to t; and a step that changes the table
\* is such a registration and leaves the target of every other pair as it was.
C24_LastRegistrationWins ==
    /\ [](JustRegistered =>
            LET reg == last_call.registered
            IN /\ <<reg.from_state, reg.event>> \in RegisteredPairs(_transitions)
               /\ _transitions[reg.from_state][reg.event] = reg.to_state
               /\ \A data \in EventData :
                      LET r == handle_event(reg.from_state, _transitions, _on_enter_actions,
                                            _on_exit_actions, reg.event, data, FALSE, FALSE)
                      IN r.ret = "True" /\ r.state = reg.to_state)
    /\ [][_transitions' # _transitions =>
            /\ ~last_call'.called
            /\ "registered" \in DOMAIN last_call'
            /\ RegisteredPairs(_transitions') =
                   RegisteredPairs(_transitions)
                       \cup {<<last_call'.registered.from_state, last_call'.registered.event>>}
            /\ \A p \in RegisteredPairs(_transitions) :
                   p # <<last_call'.registered.from_state, last_call'.registered.event>> =>
                       _transitions'[p[1]][p[2]] = _transitions[p[1]][p[2]]]_vars

\* C24 witness: a pair that had a target was registered again with another
\* target, while another pair was registered too.
C24_Witness ==
    /\ JustRegistered
    /\ last_call.registered.previous \notin {"none", last_call.registered.to_state}
    /\ Cardinality(RegisteredPairs(_transitions)) = 2

\* The status the task shapes are said to end with.
ExpectedStatus(task_data) ==
    IF task_check(task_data) # "ok" THEN "Error"
    ELSE IF task_data.parameters.param = "fail" THEN "Failed"
    ELSE "Completed"

\* C22: process_task returns "Completed" for example_tool_1 with a valid
\* param other than "fail", "Failed" for the param "fail", and "Error" when
\* tool_name or parameters are missing, the parameters fail validation or
\* the tool has no input schema; in the "Error" cases the tool is never
\* executed.
C22_Original ==
    \A c \in AgentCallers :
        agent_calls[c].pc = "returned" =>
            /\ agent_calls[c].status = ExpectedStatus(agent_calls[c].task_data)
            /\ agent_calls[c].status = "Error" => ~agent_calls[c].tool_executed

AgentInProgress(c) == agent_calls[c].pc \notin {"idle", "returned"}

\* C26: every record emitted during a process_task call carries the flow id
\* generated for that call, also while another call runs in the same
\* process; and once a call has returned and none is in progress the
\* process-wide flow_id is "GLOBAL".
C26_Original ==
    /\ \A c \in AgentCallers : agent_calls[c].records \subseteq {agent_calls[c].flow_id}
    /\ ((\E c \in AgentCallers : agent_calls[c].pc = "returned")
           /\ (\A c \in AgentCallers : ~AgentInProgress(c)))
          => logging_flow_id = "GLOBAL"

InFlight(r) == requests[r].pc \in {"yielded", "unwinding"}

\* C21: a request that acquired a connection through get_db_connection has
\* released it exactly once when it is finished, however its path operation
\* ended, and nothing is released before that or for a request that acquired
\* none; the pool counts the requests holding a connection, so with no
\* request in flight _active_connections is 0.
C21_ReleasedExactlyOnce ==
    /\ \A r \in RequestIds :
           /\ requests[r].pc = "done" => requests[r].released = requests[r].acquired
           /\ InFlight(r) => requests[r].acquired = 1 /\ requests[r].released = 0
    /\ _active_connections = Cardinality({r \in RequestIds : InFlight(r)})
    /\ (\A r \in RequestIds : ~InFlight(r)) => _active_connections = 0

\* C21 witness: no request is in flight after one ended by returning, one by
\* raising an HTTPException and one by raising another exception, each
\* having held a connection.
C21_Witness ==
    /\ \A r \in RequestIds :
           requests[r].pc = "done" /\ requests[r].acquired = 1 /\ requests[r].released = 1
    /\ {requests[r].outcome : r \in RequestIds} = Outcomes
    /\ _active_connections = 0

AbsorbingStates == {"DELIVERED", "CANCELLED", "FAILED"}

\* C27: with the table of the order-processing example, DELIVERED, CANCELLED
\* and FAILED are absorbing: in them handle_event returns False for every
\* event, leaves the state and calls no action; and whatever events are
\* applied from PENDING_PAYMENT, the state changes at most three times.
C27_AbsorbingStates ==
    /\ current_state \in AbsorbingStates =>
           \A event \in OrderEvent, data \in EventData \cup {NoEventData} :
               LET r == handle_event(current_state, _transitions, _on_enter_actions,
                                     _on_exit_actions, event, data, FALSE, data = NoEventData)
               IN r.state = current_state /\ r.ret = "False" /\ r.calls = << >>
    /\ (last_call.called /\ last_call.old_state \in AbsorbingStates) =>
           /\ last_call.ret = "False"
           /\ current_state = last_call.old_state
           /\ last_call.calls = << >>
    /\ state_changes <= 3

\* C27 witness: the order went through three state changes to DELIVERED and
\* an event was then applied there.
C27_Witness ==
    /\ state_changes = 3
    /\ current_state = "DELIVERED"
    /\ last_call.called
    /\ last_call.old_state = "DELIVERED"

(***************************************************************************)
(* Further properties of SimpleOrchestrator.execute_task                   *)
(***************************************************************************)

ExecutionTypes == {"tool_execution", "tool_execution_error"}

\* The positions of the tool_selection entries of a history, in order.
SelectionPositions(h) == {i \in 1..Len(h) : h[i].action_type = "tool_selection"}

C25_Original ==
    (/\ TaskReturned
     /\ task.initial_goal = "Tell me about the capital of France and then what is the time."
     /\ task.range_stop >= 2
     /\ ~HasEntry("error")
     /\ \A i \in 1..Len(orch_spy.calls) : orch_spy.calls[i].behaviour = "returns") =>
        /\ Len(orch_spy.calls) <= 1
        /\ HasEntry("decision")
        /\ ~HasEntry("max_steps_reached")
        /\ orch_spy.decisions < task.range_stop

(***************************************************************************)
(* Further properties of the Testable Item API                             *)
(***************************************************************************)

\* The ids of the items of a list, in order.
Ids(db) == [i \in 1..Len(db) |-> db[i].id]

\* C28: whatever create_item, update_item and delete_item calls were made
\* from the initial three items, the ids in fake_items_db are non-null and
\* pairwise distinct; an authorized update_item that found its item left
\* every id as it was and answered with the path's item_id, also when the
\* body carried another id.
C28_IdsDistinct ==
    /\ \A i \in 1..Len(fake_items_db) : fake_items_db[i].id # NoId
    /\ \A i, j \in 1..Len(fake_items_db) :
           fake_items_db[i].id = fake_items_db[j].id => i = j
    /\ (HandlerRan("update_item") /\ Authorized
            /\ HasItemWithId(last_request.db, last_request.item_id)) =>
           /\ last_response.status_code = 200
           /\ last_response.items[1].id = last_request.item_id
           /\ Ids(fake_items_db) = Ids(last_request.db)

\* C28 witness: the item with id 1 of a list that holds a created item was
\* updated with a body carrying id 2.
C28_Witness ==
    /\ HandlerRan("update_item")
    /\ Authorized
    /\ last_request.item_id = 1
    /\ "id" \in last_request.body.fields
    /\ last_request.body.id = 2
    /\ last_response.status_code = 200
    /\ HasItemWithId(fake_items_db, 2)
    /\ HasItemWithId(fake_items_db, 4)
    /\ fake_items_db[1].name = "Updated Foo"

====
